---- MODULE Spec2Model ----
(***************************************************************************)
(* Model of libopeninv's STM32F4 CAN layer (src/src/stm32_can.cpp,         *)
(* src/include/stm32_can.h): the two message maps, the transmit queue,     *)
(* persistence to flash, the field codec and the receive filter planner.   *)
(*                                                                         *)
(* Conventions                                                             *)
(*  - a uint32_t is the pair <<high half, low half>> of 16-bit halves;     *)
(*    TLC's integers are 32-bit signed and cannot hold 0xffffffff;         *)
(*  - C arrays are 0-based, TLA+ sequences 1-based: slot i of the code is  *)
(*    element i+1 of the model;                                            *)
(*  - the object's members are laid out as the ARM EABI lays them out      *)
(*    (little endian, natural alignment): Mem/Unflat give that layout in   *)
(*    16-bit halfwords, and Add's unbounded free-slot scan runs over it.   *)
(***************************************************************************)
EXTENDS Integers, Sequences, FiniteSets, TLC

(***************************************************************************)
(* Sizes. The header makes the four capacities build options (#ifndef);    *)
(* the model is checked with small ones.                                   *)
(***************************************************************************)
MAX_MESSAGES == 2
MAX_ITEMS_PER_MESSAGE == 2
SENDBUFFER_LEN == 2
MAX_USER_MESSAGES == 2
\* number of API calls explored from the constructed object
MaxCalls == 3

CAN_ERR_INVALID_ID == -1
CAN_ERR_INVALID_OFS == -2
CAN_ERR_INVALID_LEN == -3
CAN_ERR_MAXMESSAGES == -4
CAN_ERR_MAXITEMS == -5
NUMBITS_LASTMARKER == -1
IDS_PER_BANK == 4
\* 0x1fffffff, the largest identifier Add accepts
MaxCanId == 536870911
\* 0xffffffff
CANID_UNSET == <<65535, 65535>>

(***************************************************************************)
(* Integer conversions of the C types.                                     *)
(***************************************************************************)
U8(i) == i % 256
I8(u) == IF u >= 128 THEN u - 256 ELSE u
U16(i) == i % 65536
I16(u) == IF u >= 32768 THEN u - 65536 ELSE u
\* (uint32_t)i of an int i
U32(i) == <<(i \div 65536) % 65536, i % 65536>>
\* (int)u of a uint32_t u
I32(u) == IF u[1] >= 32768 THEN (u[1] - 65536) * 65536 + u[2] ELSE u[1] * 65536 + u[2]

(***************************************************************************)
(* struct CANPOS, struct CANIDMAP, struct SENDBUFFER.                      *)
(* gain is the IEEE-754 bit pattern of the float, as a uint32_t.           *)
(***************************************************************************)
CANPOS(mapParam, offset, gain, offsetBits, numBits) ==
    [mapParam |-> mapParam, offset |-> offset, gain |-> gain,
     offsetBits |-> offsetBits, numBits |-> numBits]

ZeroPos == CANPOS(0, 0, <<0, 0>>, 0, 0)

CANIDMAP(canId, items) == [canId |-> canId, items |-> items]

SENDBUFFER(id, len, d0, d1) == [id |-> id, len |-> len, data |-> <<d0, d1>>]

ZeroFrame == SENDBUFFER(<<0, 0>>, <<0, 0>>, <<0, 0>>, <<0, 0>>)

MsgIdx == 1..MAX_MESSAGES
ItemIdx == 1..MAX_ITEMS_PER_MESSAGE

(***************************************************************************)
(* forEachCanMap / forEachPosMap: the active prefix of a table and of a    *)
(* message's items.                                                        *)
(***************************************************************************)
RECURSIVE CountMsgs(_, _)
CountMsgs(canMap, i) ==
    IF i <= MAX_MESSAGES /\ canMap[i].canId # CANID_UNSET
    THEN CountMsgs(canMap, i + 1) ELSE i - 1

forEachCanMap(canMap) == CountMsgs(canMap, 1)

RECURSIVE CountItems(_, _)
CountItems(items, j) ==
    IF j <= MAX_ITEMS_PER_MESSAGE /\ items[j].numBits > 0
    THEN CountItems(items, j + 1) ELSE j - 1

forEachPosMap(msg) == CountItems(msg.items, 1)

(***************************************************************************)
(* Memory layout of the members canSendMap, canRecvMap, lastRxTimestamp,   *)
(* sendBuffer, sendCnt (declaration order), in halfwords.                  *)
(*   CANPOS   : mapParam, offset, gain lo, gain hi, offsetBits|numBits<<8, *)
(*              padding                                  (12 bytes)        *)
(*   CANIDMAP : canId lo, canId hi, items[]                                *)
(*   SENDBUFFER: id, len, data[0], data[1]               (16 bytes)        *)
(***************************************************************************)
CANPOS_HW == 6
CANIDMAP_HW == 2 + CANPOS_HW * MAX_ITEMS_PER_MESSAGE
TABLE_HW == CANIDMAP_HW * MAX_MESSAGES
SENDBUFFER_HW == 8

HW(u) == <<u[2], u[1]>>

FlatPos(p) ==
    <<p.mapParam, U16(p.offset), p.gain[2], p.gain[1],
      p.offsetBits + 256 * U8(p.numBits), 0>>

RECURSIVE FlatItems(_, _)
FlatItems(items, j) ==
    IF j > MAX_ITEMS_PER_MESSAGE THEN <<>>
    ELSE FlatPos(items[j]) \o FlatItems(items, j + 1)

RECURSIVE FlatTable(_, _)
FlatTable(canMap, i) ==
    IF i > MAX_MESSAGES THEN <<>>
    ELSE HW(canMap[i].canId) \o FlatItems(canMap[i].items, 1) \o FlatTable(canMap, i + 1)

RECURSIVE FlatBuf(_, _)
FlatBuf(buf, k) ==
    IF k > SENDBUFFER_LEN THEN <<>>
    ELSE HW(buf[k].id) \o HW(buf[k].len) \o HW(buf[k].data[1]) \o HW(buf[k].data[2])
         \o FlatBuf(buf, k + 1)

\* the object's members as one record
Obj(send, recv, ts, buf, cnt) ==
    [send |-> send, recv |-> recv, ts |-> ts, buf |-> buf, cnt |-> cnt]

Mem(o) ==
    FlatTable(o.send, 1) \o FlatTable(o.recv, 1) \o HW(o.ts) \o FlatBuf(o.buf, 1)
    \o HW(U32(o.cnt))

MemLen == 2 * TABLE_HW + 2 + SENDBUFFER_HW * SENDBUFFER_LEN + 2

\* the 32-bit word at halfword offset a (0-based)
WordAt(mem, a) == <<mem[a + 2], mem[a + 1]>>

UnflatPos(mem, a) ==
    CANPOS(mem[a + 1], I16(mem[a + 2]), WordAt(mem, a + 2),
           mem[a + 5] % 256, I8(mem[a + 5] \div 256))

UnflatMsg(mem, a) ==
    CANIDMAP(WordAt(mem, a),
             [j \in ItemIdx |-> UnflatPos(mem, a + 2 + CANPOS_HW * (j - 1))])

UnflatTable(mem, a) ==
    [i \in MsgIdx |-> UnflatMsg(mem, a + CANIDMAP_HW * (i - 1))]

UnflatFrame(mem, a) ==
    SENDBUFFER(WordAt(mem, a), WordAt(mem, a + 2), WordAt(mem, a + 4), WordAt(mem, a + 6))

Unflat(mem) ==
    Obj(UnflatTable(mem, 0),
        UnflatTable(mem, TABLE_HW),
        WordAt(mem, 2 * TABLE_HW),
        [k \in 1..SENDBUFFER_LEN |->
            UnflatFrame(mem, 2 * TABLE_HW + 2 + SENDBUFFER_HW * (k - 1))],
        I32(WordAt(mem, 2 * TABLE_HW + 2 + SENDBUFFER_HW * SENDBUFFER_LEN)))

\* halfword offset of the table a CANIDMAP* points to
TableBase(tbl) == IF tbl = "send" THEN 0 ELSE TABLE_HW

\* halfword offset of canMap[i].items (i 1-based)
ItemsAddr(tbl, i) == TableBase(tbl) + CANIDMAP_HW * (i - 1) + 2

\* numBits of the CANPOS at halfword offset a
NumBitsAt(mem, a) == I8(mem[a + 5] \div 256)

(***************************************************************************)
(* Can::ClearMap: only canId and numBits are written.                      *)
(***************************************************************************)
ClearMap(canMap) ==
    [i \in MsgIdx |->
        CANIDMAP(CANID_UNSET,
                 [j \in ItemIdx |-> [canMap[i].items[j] EXCEPT !.numBits = 0]])]

(***************************************************************************)
(* Can::FindById: index of the first slot (of all MAX_MESSAGES) holding    *)
(* canId, 0 for the null pointer.                                          *)
(***************************************************************************)
FindById(canMap, canId) ==
    IF \E i \in MsgIdx : canMap[i].canId = canId
    THEN CHOOSE i \in MsgIdx :
            /\ canMap[i].canId = canId
            /\ \A k \in 1..(i - 1) : canMap[k].canId # canId
    ELSE 0

(***************************************************************************)
(* Can::Add. The validation tests the int16_t translation `offset`, not    *)
(* offsetBits. The free-slot scan `for (; freeItem->numBits > 0;           *)
(* freeItem++)` has no bound: ClearMap stores no NUMBITS_LASTMARKER behind *)
(* the items, so in a message with MAX_ITEMS_PER_MESSAGE active items the  *)
(* scan walks on through the members that follow in memory (ScanFree over  *)
(* Mem), and the five stores go to wherever it stops. A scan that leaves   *)
(* the modelled members is reported as -1 and treated as the marker.       *)
(***************************************************************************)
RECURSIVE ScanFree(_, _)
ScanFree(mem, a) ==
    IF a + CANPOS_HW > MemLen THEN -1
    ELSE IF NumBitsAt(mem, a) > 0 THEN ScanFree(mem, a + CANPOS_HW)
    ELSE a

\* the stores freeItem->mapParam ... freeItem->numBits at halfword offset a
StoreItem(mem, a, param, offsetBits, length, gain, offset) ==
    [mem EXCEPT ![a + 1] = U16(param),
                ![a + 2] = U16(offset),
                ![a + 3] = gain[2],
                ![a + 4] = gain[1],
                ![a + 5] = U8(offsetBits) + 256 * U8(length)]

Result(o, ret) == [obj |-> o, ret |-> ret]

\* the scan has left items[]: freeItem points behind the message
AddBeyond(o1, tbl, existingMap, param, offsetBits, length, gain, offset) ==
    LET mem == Mem(o1)
        freeItem == ScanFree(mem, ItemsAddr(tbl, existingMap)
                                  + CANPOS_HW * MAX_ITEMS_PER_MESSAGE)
    IN IF freeItem < 0 THEN Result(o1, CAN_ERR_MAXITEMS)
       ELSE IF NumBitsAt(mem, freeItem) = NUMBITS_LASTMARKER
            THEN Result(o1, CAN_ERR_MAXITEMS)
       ELSE
         LET o2 == Unflat(StoreItem(mem, freeItem, param, offsetBits,
                                    length, gain, offset))
         IN Result(o2, forEachCanMap(o2[tbl]))

\* mutant: the translation is stored as the bit offset
AddWithin_StoresTranslation(o1, tbl, existingMap, n, param, offsetBits, length, gain, offset) ==
    IF o1[tbl][existingMap].items[n + 1].numBits = NUMBITS_LASTMARKER
    THEN Result(o1, CAN_ERR_MAXITEMS)
    ELSE
      LET o2 == [o1 EXCEPT ![tbl][existingMap].items[n + 1] =
                   CANPOS(U16(param), offset, gain, U8(offset), I8(U8(length)))]
      IN Result(o2, forEachCanMap(o2[tbl]))

\* the scan stops inside items[], at items[n] (0-based)
AddWithin(o1, tbl, existingMap, n, param, offsetBits, length, gain, offset) ==
    IF o1[tbl][existingMap].items[n + 1].numBits = NUMBITS_LASTMARKER
    THEN Result(o1, CAN_ERR_MAXITEMS)
    ELSE
      LET o2 == [o1 EXCEPT ![tbl][existingMap].items[n + 1] =
                   CANPOS(U16(param), offset, gain, U8(offsetBits), I8(U8(length)))]
      IN Result(o2, forEachCanMap(o2[tbl]))

\* mutant: a full table hands out its last slot again
ExistingMap_ReusesLast(canMap, canId) ==
    IF FindById(canMap, canId) # 0 THEN FindById(canMap, canId)
    ELSE IF FindById(canMap, CANID_UNSET) # 0 THEN FindById(canMap, CANID_UNSET)
    ELSE MAX_MESSAGES

\* existingMap after the two FindById calls: the message with this id, else
\* the first unused slot, else 0 (the null pointer)
ExistingMap(canMap, canId) ==
    IF FindById(canMap, canId) # 0 THEN FindById(canMap, canId)
    ELSE FindById(canMap, CANID_UNSET)

Add(o, tbl, param, canId, offsetBits, length, gain, offset) ==
    IF canId > MaxCanId THEN Result(o, CAN_ERR_INVALID_ID)
    ELSE IF offset > 63 THEN Result(o, CAN_ERR_INVALID_OFS)
    ELSE IF length > 32 THEN Result(o, CAN_ERR_INVALID_LEN)
    ELSE
      LET existingMap == ExistingMap(o[tbl], U32(canId))
      IN IF existingMap = 0 THEN Result(o, CAN_ERR_MAXMESSAGES)
         ELSE
           LET o1 == [o EXCEPT ![tbl][existingMap].canId = U32(canId)]
               n == forEachPosMap(o1[tbl][existingMap])
           IN IF n < MAX_ITEMS_PER_MESSAGE
              THEN AddWithin(o1, tbl, existingMap, n, param, offsetBits, length,
                             gain, offset)
              ELSE AddBeyond(o1, tbl, existingMap, param, offsetBits, length,
                             gain, offset)

(***************************************************************************)
(* Can::CopyIdMapExcept and Can::RemoveFromMap.                            *)
(***************************************************************************)
ActiveItems(msg) == [j \in 1..forEachPosMap(msg) |-> msg.items[j]]

RECURSIVE CopyLoop(_, _, _, _, _, _)
CopyLoop(source, dest, param, k, i, removed) ==
    IF k > forEachCanMap(source) THEN [map |-> dest, removed |-> removed]
    ELSE
      LET act == ActiveItems(source[k])
          kept == SelectSeq(act, LAMBDA p : p.mapParam # param)
          discardId == Len(kept) = 0
          dest1 == IF discardId THEN dest
                   ELSE [dest EXCEPT
                           ![i] = CANIDMAP(source[k].canId,
                                    [j \in ItemIdx |->
                                       IF j <= Len(kept) THEN kept[j]
                                       ELSE dest[i].items[j]])]
      IN CopyLoop(source, dest1, param, k + 1,
                  IF discardId THEN i ELSE i + 1,
                  removed + (Len(act) - Len(kept)))

\* mutant: the destination index follows the source index, leaving a gap
\* where a message was dropped
CopyIdMapExcept_LeavesGap(source, dest, param) ==
    LET kept(k) == SelectSeq(ActiveItems(source[k]), LAMBDA p : p.mapParam # param)
    IN [map |-> [i \in MsgIdx |->
                   IF i <= forEachCanMap(source) /\ Len(kept(i)) > 0
                   THEN CANIDMAP(source[i].canId,
                                 [j \in ItemIdx |->
                                    IF j <= Len(kept(i)) THEN kept(i)[j]
                                    ELSE dest[i].items[j]])
                   ELSE dest[i]],
        removed |-> CopyLoop(source, dest, param, 1, 1, 0).removed]

CopyIdMapExcept(source, dest, param) == CopyLoop(source, dest, param, 1, 1, 0)

\* the local CANIDMAP copyMap[MAX_MESSAGES] after ClearMap(copyMap)
ClearedCopyMap == ClearMap([i \in MsgIdx |-> CANIDMAP(CANID_UNSET, [j \in ItemIdx |-> ZeroPos])])

RemoveFromMap(canMap, param) ==
    LET first == CopyIdMapExcept(canMap, ClearedCopyMap, param)
        back == CopyIdMapExcept(first.map, ClearMap(canMap), param)
    IN [map |-> back.map, removed |-> first.removed]

(***************************************************************************)
(* Can::FindMap: outbound table first, then inbound, in slot order.        *)
(***************************************************************************)
Hits(canMap, param) ==
    {h \in MsgIdx \X ItemIdx :
        /\ h[1] <= forEachCanMap(canMap)
        /\ h[2] <= forEachPosMap(canMap[h[1]])
        /\ canMap[h[1]].items[h[2]].mapParam = param}

FirstHit(canMap, param) ==
    CHOOSE h \in Hits(canMap, param) :
        \A g \in Hits(canMap, param) :
            h[1] < g[1] \/ (h[1] = g[1] /\ h[2] <= g[2])

Found(canMap, h, rx) ==
    [found |-> TRUE,
     canId |-> I32(canMap[h[1]].canId),
     offset |-> canMap[h[1]].items[h[2]].offsetBits,
     length |-> canMap[h[1]].items[h[2]].numBits,
     gain |-> canMap[h[1]].items[h[2]].gain,
     rx |-> rx]

NotFound ==
    [found |-> FALSE, canId |-> 0, offset |-> 0, length |-> 0, gain |-> <<0, 0>>,
     rx |-> TRUE]

FindMap(send, recv, param) ==
    IF Hits(send, param) # {} THEN Found(send, FirstHit(send, param), FALSE)
    ELSE IF Hits(recv, param) # {} THEN Found(recv, FirstHit(recv, param), TRUE)
    ELSE NotFound

(***************************************************************************)
(* Can::ConfigureFilters and Can::SetFilterBank (canDev = CAN1, so the     *)
(* first bank is 0). A bank holds the four uint16_t arguments handed to    *)
(* can_filter_id_list_16bit_init and the FIFO; banks the run does not      *)
(* reach keep what an earlier run programmed.                              *)
(***************************************************************************)
NumBanks == (1 + MAX_USER_MESSAGES + MAX_MESSAGES + IDS_PER_BANK) \div IDS_PER_BANK

BankOff == [on |-> FALSE, ids |-> <<0, 0, 0, 0>>, fifo |-> 0]

\* SetFilterBank without the reset of idList
SetFilterBank_KeepsList(st) ==
    [idIndex |-> 0,
     filterId |-> st.filterId + 1,
     idList |-> st.idList,
     banks |-> IF st.filterId < NumBanks
               THEN [st.banks EXCEPT ![st.filterId + 1] =
                       [on |-> TRUE,
                        ids |-> [n \in 1..IDS_PER_BANK |-> U16(st.idList[n] * 32)],
                        fifo |-> st.filterId % 2]]
               ELSE st.banks]

SetFilterBank(st) ==
    [idIndex |-> 0,
     filterId |-> st.filterId + 1,
     idList |-> <<0, 0, 0, 0>>,
     banks |-> IF st.filterId < NumBanks
               THEN [st.banks EXCEPT ![st.filterId + 1] =
                       [on |-> TRUE,
                        ids |-> [n \in 1..IDS_PER_BANK |-> U16(st.idList[n] * 32)],
                        fifo |-> st.filterId % 2]]
               ELSE st.banks]

\* idList[idIndex] = id; idIndex++; if (idIndex == IDS_PER_BANK) SetFilterBank
PutId(st, id) ==
    LET st1 == [st EXCEPT !.idList[st.idIndex + 1] = U16(id), !.idIndex = st.idIndex + 1]
    IN IF st1.idIndex = IDS_PER_BANK THEN SetFilterBank(st1) ELSE st1

RECURSIVE PutIds(_, _, _)
PutIds(st, ids, n) ==
    IF n > Len(ids) THEN st ELSE PutIds(PutId(st, ids[n]), ids, n + 1)

ConfigureFilters(banks, node, users, nextUser, recv) ==
    LET st0 == [idIndex |-> 1, filterId |-> 0,
                idList |-> <<U16(1536 + node), 0, 0, 0>>, banks |-> banks]
        st1 == PutIds(st0, [n \in 1..nextUser |-> users[n]], 1)
        st2 == PutIds(st1, [i \in 1..forEachCanMap(recv) |-> recv[i].canId[2]], 1)
    IN IF st2.idIndex > 0 THEN SetFilterBank(st2).banks ELSE st2.banks

(***************************************************************************)
(* The parameter store (external to this file): attribs[p].id read by      *)
(* Param::GetAttrib and the reverse lookup Param::NumFromId. The unique    *)
(* ids are distinct, and one of them equals another parameter's            *)
(* enumerator, so a reference left in the wrong form is told apart.        *)
(* PARAM_LAST and PARAM_INVALID follow the last parameter in the enum.     *)
(***************************************************************************)
ParamIds == <<7, 2, 33>>
PARAM_LAST == Len(ParamIds)
PARAM_INVALID == PARAM_LAST + 1

\* Param::GetAttrib(p)->id; an index past the table reads beyond attribs[], and
\* the tables of the specifications below hold no such index
GetAttribId(p) == IF p < PARAM_LAST THEN ParamIds[p + 1] ELSE 0

NumFromId(id) ==
    IF \E p \in 0..(PARAM_LAST - 1) : ParamIds[p + 1] = id
    THEN CHOOSE p \in 0..(PARAM_LAST - 1) :
            /\ ParamIds[p + 1] = id
            /\ \A q \in 0..(p - 1) : ParamIds[q + 1] # id
    ELSE PARAM_INVALID

(***************************************************************************)
(* Can::ReplaceParamEnumByUid / Can::ReplaceParamUidByEnum: the active     *)
(* items of the active messages only.                                      *)
(***************************************************************************)
ReplaceParamEnumByUid(canMap) ==
    [i \in MsgIdx |->
        IF i <= forEachCanMap(canMap)
        THEN CANIDMAP(canMap[i].canId,
                      [j \in ItemIdx |->
                          IF j <= forEachPosMap(canMap[i])
                          THEN [canMap[i].items[j] EXCEPT
                                   !.mapParam = U16(GetAttribId(@))]
                          ELSE canMap[i].items[j]])
        ELSE canMap[i]]

\* ReplaceParamUidByEnum that translates nothing: the tables keep what they hold
ReplaceParamUidByEnum_KeepsRefs(canMap) ==
    [i \in MsgIdx |-> CANIDMAP(canMap[i].canId, canMap[i].items)]

ReplaceParamUidByEnum(canMap) ==
    [i \in MsgIdx |->
        IF i <= forEachCanMap(canMap)
        THEN CANIDMAP(canMap[i].canId,
                      [j \in ItemIdx |->
                          IF j <= forEachPosMap(canMap[i])
                          THEN [canMap[i].items[j] EXCEPT
                                   !.mapParam = NumFromId(@)]
                          ELSE canMap[i].items[j]])
        ELSE canMap[i]]

(***************************************************************************)
(* The flash block at GetFlashAddress(), in halfwords: the send table, the *)
(* receive table, the checksum word. An erased halfword reads 0xFFFF;      *)
(* programming can only clear bits.                                        *)
(***************************************************************************)
SENDMAP_ADDRESS == 0
RECVMAP_ADDRESS == SENDMAP_ADDRESS + TABLE_HW
CRC_ADDRESS == SENDMAP_ADDRESS + TABLE_HW + TABLE_HW
FLASH_HW == CRC_ADDRESS + 2
SENDMAP_WORDS == TABLE_HW \div 2
RECVMAP_WORDS == TABLE_HW \div 2

ErasedHalfword == 65535
ErasedFlash == [a \in 1..FLASH_HW |-> ErasedHalfword]

\* 2^n by halving n
RECURSIVE Pow2(_)
Pow2(n) ==
    IF n = 0 THEN 1
    ELSE IF n = 1 THEN 2
    ELSE Pow2(n \div 2) * Pow2(n - n \div 2)

\* the bitwise AND of two w-bit values: the low half of the bits, then the rest
RECURSIVE BitAndW(_, _, _)
BitAndW(a, b, w) ==
    IF w = 1 THEN a * b
    ELSE BitAndW(a % Pow2(w \div 2), b % Pow2(w \div 2), w \div 2)
         + Pow2(w \div 2) * BitAndW(a \div Pow2(w \div 2), b \div Pow2(w \div 2),
                                    w - w \div 2)

BitAnd(a, b) ==
    IF a = 65535 THEN b
    ELSE IF b = 65535 THEN a
    ELSE IF a = 0 \/ b = 0 THEN 0
    ELSE BitAndW(a, b, 16)

(***************************************************************************)
(* The CRC unit (external): crc_reset, crc_calculate of one word, which    *)
(* returns the accumulated value, and crc_calculate_block. The unit is     *)
(* modelled as a polynomial checksum, acc' = (31 * acc + h(word)) mod a    *)
(* prime, so that the accumulation over a block in address order has the   *)
(* closed form 31^len * acc + CrcSum, evaluated by halving the block.      *)
(***************************************************************************)
CrcModulus == 32749
CrcFactor == 31
crc_reset == CrcModulus - 1
CrcWord(w) == (w[1] * 7 + w[2] + 1) % CrcModulus
crc_calculate(crc, w) == U32((crc[2] * CrcFactor + CrcWord(w)) % CrcModulus)

\* CrcFactor^n mod CrcModulus
RECURSIVE CrcPow(_)
CrcPow(n) ==
    IF n = 0 THEN 1
    ELSE IF n = 1 THEN CrcFactor
    ELSE (CrcPow(n \div 2) * CrcPow(n - n \div 2)) % CrcModulus

\* what len words from halfword offset a add to a checksum that starts at 0
RECURSIVE CrcSum(_, _, _)
CrcSum(mem, a, len) ==
    IF len = 0 THEN 0
    ELSE IF len = 1 THEN CrcWord(WordAt(mem, a))
    ELSE (CrcSum(mem, a, len \div 2) * CrcPow(len - len \div 2)
          + CrcSum(mem, a + 2 * (len \div 2), len - len \div 2)) % CrcModulus

crc_calculate_block(crc, mem, a, len) ==
    U32((crc[2] * CrcPow(len) + CrcSum(mem, a, len)) % CrcModulus)

(***************************************************************************)
(* Can::SaveToFlash: every word of the source goes through the CRC unit    *)
(* and is programmed; the loop is written as its result. st is the flash   *)
(* and the state of the CRC unit, data the halfwords of the source.        *)
(***************************************************************************)
SaveToFlash(st, baseAddress, data, len) ==
    [crc |-> crc_calculate_block(st.crc, data, 0, len),
     flash |-> [a \in 1..FLASH_HW |->
                  IF a > baseAddress /\ a <= baseAddress + 2 * len
                  THEN BitAnd(st.flash[a], data[a - baseAddress])
                  ELSE st.flash[a]]]

\* Can::Save without the restoration of the enumerators
SaveImage_KeepsUids(send, recv, fl) ==
    LET uidSend == ReplaceParamEnumByUid(send)
        uidRecv == ReplaceParamEnumByUid(recv)
        s1 == SaveToFlash([crc |-> U32(crc_reset), flash |-> fl], SENDMAP_ADDRESS,
                          FlatTable(uidSend, 1), SENDMAP_WORDS)
        s2 == SaveToFlash(s1, RECVMAP_ADDRESS, FlatTable(uidRecv, 1), RECVMAP_WORDS)
        s3 == SaveToFlash(s2, CRC_ADDRESS, HW(s2.crc), 1)
    IN [send |-> uidSend, recv |-> uidRecv, flash |-> s3.flash]

(***************************************************************************)
(* Can::Save as one step: the tables in unique-id form are programmed, the *)
(* checksum accumulated over both follows, and the enumerators are         *)
(* restored in memory.                                                     *)
(***************************************************************************)
SaveImage(send, recv, fl) ==
    LET uidSend == ReplaceParamEnumByUid(send)
        uidRecv == ReplaceParamEnumByUid(recv)
        s1 == SaveToFlash([crc |-> U32(crc_reset), flash |-> fl], SENDMAP_ADDRESS,
                          FlatTable(uidSend, 1), SENDMAP_WORDS)
        s2 == SaveToFlash(s1, RECVMAP_ADDRESS, FlatTable(uidRecv, 1), RECVMAP_WORDS)
        s3 == SaveToFlash(s2, CRC_ADDRESS, HW(s2.crc), 1)
    IN [send |-> ReplaceParamUidByEnum(uidSend),
        recv |-> ReplaceParamUidByEnum(uidRecv),
        flash |-> s3.flash]

(***************************************************************************)
(* Can::LoadFromFlash: the checksum over the two stored tables is compared *)
(* with the stored word before anything is copied.                         *)
(***************************************************************************)
StoredCrc(fl) == WordAt(fl, CRC_ADDRESS)
ComputedCrc(fl) ==
    crc_calculate_block(U32(crc_reset), fl, SENDMAP_ADDRESS, SENDMAP_WORDS + RECVMAP_WORDS)

LoadFromFlash_CopiesFirst(send, recv, fl) ==
    [send |-> ReplaceParamUidByEnum(UnflatTable(fl, SENDMAP_ADDRESS)),
     recv |-> ReplaceParamUidByEnum(UnflatTable(fl, RECVMAP_ADDRESS)),
     ret |-> IF StoredCrc(fl) = ComputedCrc(fl) THEN 1 ELSE 0]

LoadFromFlash_KeepsUids(send, recv, fl) ==
    IF StoredCrc(fl) = ComputedCrc(fl)
    THEN [send |-> UnflatTable(fl, SENDMAP_ADDRESS),
          recv |-> UnflatTable(fl, RECVMAP_ADDRESS),
          ret |-> 1]
    ELSE [send |-> send, recv |-> recv, ret |-> 0]

LoadFromFlash(send, recv, fl) ==
    IF StoredCrc(fl) = ComputedCrc(fl)
    THEN [send |-> ReplaceParamUidByEnum(UnflatTable(fl, SENDMAP_ADDRESS)),
          recv |-> ReplaceParamUidByEnum(UnflatTable(fl, RECVMAP_ADDRESS)),
          ret |-> 1]
    ELSE [send |-> send, recv |-> recv, ret |-> 0]

(***************************************************************************)
(* The field codec of SendAll and HandleRx.                                *)
(*   A parameter value is an s32fp with FRAC_DIGITS fractional bits;       *)
(*   Param::GetFloat hands it out as the float fp / 2^FRAC_DIGITS.         *)
(*   A float is carried as the fraction <<num, den>> it stands for; the    *)
(*   values the specifications use stay below 2^24 in magnitude, where the *)
(*   float operations of the code are exact.                               *)
(*   A 32-bit word is the pair <<high half, low half>>.                    *)
(***************************************************************************)
FRAC_DIGITS == 5

\* count <= 31 places
Shl32(u, count) ==
    IF count < 16
    THEN <<(u[1] * Pow2(count) + (u[2] * Pow2(count)) \div 65536) % 65536,
           (u[2] * Pow2(count)) % 65536>>
    ELSE <<(u[2] * Pow2(count - 16)) % 65536, 0>>

Shr32(u, count) ==
    IF count < 16
    THEN <<u[1] \div Pow2(count),
           (u[2] \div Pow2(count) + (u[1] % Pow2(count)) * Pow2(16 - count)) % 65536>>
    ELSE <<0, u[1] \div Pow2(count - 16)>>

And32(u, v) == <<BitAnd(u[1], v[1]), BitAnd(u[2], v[2])>>

Or32(u, v) ==
    <<u[1] + v[1] - BitAnd(u[1], v[1]), u[2] + v[2] - BitAnd(u[2], v[2])>>

FP_FROMINT(a) == I32(Shl32(a, FRAC_DIGITS))

\* (int)f of a fraction: towards zero
Trunc(num, den) == IF num >= 0 THEN num \div den ELSE -((-num) \div den)

\* the value of a float given as its two halves (normal numbers; 0 otherwise)
FloatValue(g) ==
    LET e == (g[1] \div 128) % 256
        m == 8388608 + (g[1] % 128) * 65536 + g[2]
        tz == CHOOSE k \in 0..23 :
                 m % Pow2(k) = 0 /\ (k = 23 \/ m % Pow2(k + 1) # 0)
        sh == e - 150 + tz
        sign == IF g[1] >= 32768 THEN -1 ELSE 1
    IN IF e = 0 THEN <<0, 1>>
       ELSE <<sign * (m \div Pow2(tz)) * Pow2(IF sh > 0 THEN sh ELSE 0),
              Pow2(IF sh < 0 THEN -sh ELSE 0)>>

(***************************************************************************)
(* (1 << numBits) - 1 as a uint32_t. The shift is an int shift: for        *)
(* numBits = 32 it is undefined, and a build yields either all ones (the   *)
(* shift gives 0) or 0 (the shift count is taken modulo 32).               *)
(***************************************************************************)
FieldMasks(numBits) ==
    IF numBits >= 32 THEN {<<65535, 65535>>, <<0, 0>>}
    ELSE {<<IF numBits > 16 THEN Pow2(numBits - 16) - 1 ELSE 0,
            IF numBits >= 16 THEN 65535 ELSE Pow2(numBits) - 1>>}

(***************************************************************************)
(* SendAll, one field: fval = GetFloat(param); fval *= gain; fval +=       *)
(* offset; val = fval; val &= mask; the word of the payload the field goes *)
(* to |= val << shift. fp is the parameter's s32fp, data the payload so    *)
(* far.                                                                    *)
(***************************************************************************)
Encode(data, fp, pos, mask) ==
    LET g == FloatValue(pos.gain)
        val == U32(Trunc(fp * g[1] + pos.offset * Pow2(FRAC_DIGITS) * g[2],
                         Pow2(FRAC_DIGITS) * g[2]))
    IN IF pos.offsetBits > 31
       THEN <<data[1], Or32(data[2], Shl32(And32(val, mask), pos.offsetBits - 32))>>
       ELSE <<Or32(data[1], Shl32(And32(val, mask), pos.offsetBits)), data[2]>>

(***************************************************************************)
(* HandleRx, one field: val = FP_FROMINT((word >> shift) & mask); val +=   *)
(* offset; val *= gain. The result is the s32fp handed to Param::Set.      *)
(***************************************************************************)
Decode_RawBits(data, pos, mask) ==
    LET g == FloatValue(pos.gain)
        raw == IF pos.offsetBits > 31
               THEN And32(Shr32(data[2], pos.offsetBits - 32), mask)
               ELSE And32(Shr32(data[1], pos.offsetBits), mask)
    IN Trunc((I32(raw) + pos.offset) * g[1], g[2])

Decode(data, pos, mask) ==
    LET g == FloatValue(pos.gain)
        raw == IF pos.offsetBits > 31
               THEN And32(Shr32(data[2], pos.offsetBits - 32), mask)
               ELSE And32(Shr32(data[1], pos.offsetBits), mask)
    IN Trunc((FP_FROMINT(raw) + pos.offset) * g[1], g[2])

(***************************************************************************)
(* The transmit path. can_transmit (external) hands a frame to a free      *)
(* mailbox and returns its number, or returns -1 when none is free.        *)
(* Can::Send tries the hardware first, whatever the queue holds, and       *)
(* pushes the frame when that fails and the buffer has room; Can::HandleTx *)
(* pops from the top while the hardware takes the frames.                  *)
(***************************************************************************)
can_transmit(hw, frame) ==
    IF hw.rejects > 0
    THEN [hw |-> [hw EXCEPT !.rejects = @ - 1], ret |-> -1]
    ELSE [hw |-> [hw EXCEPT !.sent = Append(@, frame)], ret |-> 0]

\* Can::Send without the capacity test's protection of the queue: a frame that
\* finds the queue full replaces the one on top
SendFrame_OverwritesTop(hw, buf, cnt, frame) ==
    LET t == can_transmit(hw, frame)
    IN IF t.ret < 0
       THEN [hw |-> t.hw,
             buf |-> [buf EXCEPT ![IF cnt < SENDBUFFER_LEN THEN cnt + 1 ELSE cnt] = frame],
             cnt |-> IF cnt < SENDBUFFER_LEN THEN cnt + 1 ELSE cnt,
             ret |-> IF cnt < SENDBUFFER_LEN THEN 0 ELSE -1]
       ELSE [hw |-> t.hw, buf |-> buf, cnt |-> cnt, ret |-> 1]

\* the result of Send: the hardware, the queue, and what became of the frame
\* (1 handed to the hardware, 0 queued, -1 dropped)
SendFrame(hw, buf, cnt, frame) ==
    LET t == can_transmit(hw, frame)
    IN IF t.ret < 0 /\ cnt < SENDBUFFER_LEN
       THEN [hw |-> t.hw, buf |-> [buf EXCEPT ![cnt + 1] = frame], cnt |-> cnt + 1,
             ret |-> 0]
       ELSE [hw |-> t.hw, buf |-> buf, cnt |-> cnt,
             ret |-> IF t.ret < 0 THEN -1 ELSE 1]

RECURSIVE HandleTxLoop_FromBottom(_, _, _)
HandleTxLoop_FromBottom(hw, buf, cnt) ==
    IF cnt > 0 /\ can_transmit(hw, buf[1]).ret >= 0
    THEN HandleTxLoop_FromBottom(can_transmit(hw, buf[1]).hw,
                                 [k \in 1..SENDBUFFER_LEN |->
                                     IF k < SENDBUFFER_LEN THEN buf[k + 1] ELSE buf[k]],
                                 cnt - 1)
    ELSE [hw |-> IF cnt > 0 THEN can_transmit(hw, buf[1]).hw ELSE hw, buf |-> buf,
          cnt |-> cnt]

\* while (sendCnt > 0 && can_transmit(b[sendCnt - 1]) >= 0) sendCnt--;
RECURSIVE HandleTxLoop(_, _, _)
HandleTxLoop(hw, buf, cnt) ==
    IF cnt > 0 /\ can_transmit(hw, buf[cnt]).ret >= 0
    THEN HandleTxLoop(can_transmit(hw, buf[cnt]).hw, buf, cnt - 1)
    ELSE [hw |-> IF cnt > 0 THEN can_transmit(hw, buf[cnt]).hw ELSE hw, buf |-> buf,
          cnt |-> cnt]

(***************************************************************************)
(* State.                                                                  *)
(***************************************************************************)
VARIABLES
    canSendMap,            \* CANIDMAP canSendMap[MAX_MESSAGES]
    canRecvMap,            \* CANIDMAP canRecvMap[MAX_MESSAGES]
    lastRxTimestamp,       \* uint32_t
    sendBuffer,            \* SENDBUFFER sendBuffer[SENDBUFFER_LEN]
    sendCnt,               \* int
    userIds,               \* uint16_t userIds[MAX_USER_MESSAGES]
    nextUserMessageIndex,  \* int
    nodeId,                \* uint8_t
    filterBanks,           \* hardware: the programmed filter banks
    isSaving,              \* static volatile bool
    flash,                 \* hardware: the flash block of the tables
    saved,                 \* the tables a Save onto the erased block has stored
    codec,                 \* one field on its way through SendAll and HandleRx
    tmeie,                 \* hardware: CAN_IER_TMEIE, transmit interrupt enabled
    canTx,                 \* hardware: transmit mailboxes and the frames they took
    fg,                    \* the foreground Send under way, statement by statement
    last,                  \* the last API call, its arguments and its result
    nCalls,                \* number of API calls made
    params,                \* the parameter store: the s32fp value of each parameter
    io                     \* what the last SendAll or HandleRx run did

objVars == <<canSendMap, canRecvMap, lastRxTimestamp, sendBuffer, sendCnt>>
userVars == <<userIds, nextUserMessageIndex, nodeId>>
persistVars == <<isSaving, flash, saved>>
txVars == <<tmeie, canTx, fg>>
rxVars == <<params, io>>
vars == <<objVars, userVars, filterBanks, persistVars, codec, txVars, last, nCalls, rxVars>>

ThisObj == Obj(canSendMap, canRecvMap, lastRxTimestamp, sendBuffer, sendCnt)

SetObj(o) ==
    /\ canSendMap' = o.send
    /\ canRecvMap' = o.recv
    /\ lastRxTimestamp' = o.ts
    /\ sendBuffer' = o.buf
    /\ sendCnt' = o.cnt

Call(op, param, canId, offsetBits, length, gain, offset, ret) ==
    [op |-> op, param |-> param, canId |-> canId, offsetBits |-> offsetBits,
     length |-> length, gain |-> gain, offset |-> offset, ret |-> ret]

NoCall == Call("Can", 0, 0, 0, 0, <<0, 0>>, 0, 0)

\* the active messages of a table with their active fields
ActiveView(canMap) ==
    [i \in 1..forEachCanMap(canMap) |->
        [canId |-> canMap[i].canId, items |-> ActiveItems(canMap[i])]]

\* no SendAll or HandleRx has run: the frames received, the path each one took,
\* the parameters read, the parameters set, the frames handed to Can::Send, and
\* the calls of recvCallback
NoIo == [op |-> "none", frames |-> <<>>, paths |-> <<>>, reads |-> <<>>, sets |-> <<>>,
         sends |-> <<>>, callbacks |-> <<>>, saving |-> FALSE]

NothingSaved == [valid |-> FALSE, send |-> <<>>, recv |-> <<>>]

EmptyMap == ClearMap([i \in MsgIdx |-> CANIDMAP(<<0, 0>>, [j \in ItemIdx |-> ZeroPos])])

\* no Send under way in the foreground. pc: the statement to execute next;
\* frame: the arguments; idx: sendCnt as the capacity test read it; outside: a
\* store went beyond sendBuffer
NoSend == [pc |-> "idle", frame |-> ZeroFrame, idx |-> 0, outside |-> FALSE]

(***************************************************************************)
(* Can::Can on a zeroed object and an erased flash page: Clear(), a        *)
(* rejected LoadFromFlash(), nodeId = 1, ConfigureFilters().               *)
(***************************************************************************)
InitCan ==
    /\ canSendMap = EmptyMap
    /\ canRecvMap = EmptyMap
    /\ lastRxTimestamp = <<0, 0>>
    /\ sendBuffer = [k \in 1..SENDBUFFER_LEN |-> ZeroFrame]
    /\ sendCnt = 0
    /\ userIds = [n \in 1..MAX_USER_MESSAGES |-> 0]
    /\ nextUserMessageIndex = 0
    /\ nodeId = 1
    /\ filterBanks = ConfigureFilters([b \in 1..NumBanks |-> BankOff], 1,
                                      [n \in 1..MAX_USER_MESSAGES |-> 0], 0, EmptyMap)
    /\ isSaving = FALSE
    /\ flash = ErasedFlash
    /\ saved = NothingSaved
    /\ last = NoCall
    /\ nCalls = 0
    /\ params = [p \in 0..(PARAM_LAST - 1) |-> 0]
    /\ io = NoIo
    /\ fg = NoSend

\* no field under way
NoField == [stage |-> "none", fp |-> 0, pos |-> ZeroPos,
            data |-> <<<<0, 0>>, <<0, 0>>>>, val |-> 0]

\* rejects: how many of the next can_transmit calls find no free mailbox;
\* sent: the frames the mailboxes have taken, in order
CanTx(rejects, sent) == [rejects |-> rejects, sent |-> sent]

Init ==
    /\ InitCan
    /\ codec = NoField
    /\ tmeie = FALSE
    /\ canTx = CanTx(0, <<>>)

(***************************************************************************)
(* The API calls.                                                          *)
(***************************************************************************)
AddSend(param, canId, offsetBits, length, gain, offset) ==
    LET r == Add(ThisObj, "send", param, canId, offsetBits, length, gain, offset)
    IN /\ nCalls < MaxCalls
       /\ SetObj(r.obj)
       /\ last' = Call("AddSend", param, canId, offsetBits, length, gain, offset, r.ret)
       /\ nCalls' = nCalls + 1
       /\ UNCHANGED <<userVars, filterBanks, persistVars, codec, txVars, rxVars>>

AddRecv(param, canId, offsetBits, length, gain, offset) ==
    LET r == Add(ThisObj, "recv", param, canId, offsetBits, length, gain, offset)
    IN /\ nCalls < MaxCalls
       /\ SetObj(r.obj)
       /\ filterBanks' = ConfigureFilters(filterBanks, nodeId, userIds,
                                          nextUserMessageIndex, r.obj.recv)
       /\ last' = Call("AddRecv", param, canId, offsetBits, length, gain, offset, r.ret)
       /\ nCalls' = nCalls + 1
       /\ UNCHANGED <<userVars, persistVars, codec, txVars, rxVars>>

Remove(param) ==
    LET s == RemoveFromMap(canSendMap, param)
        r == RemoveFromMap(canRecvMap, param)
    IN /\ nCalls < MaxCalls
       /\ canSendMap' = s.map
       /\ canRecvMap' = r.map
       /\ last' = Call("Remove", param, 0, 0, 0, <<0, 0>>, 0, s.removed + r.removed)
       /\ nCalls' = nCalls + 1
       /\ UNCHANGED <<lastRxTimestamp, sendBuffer, sendCnt, userVars, filterBanks, persistVars,
                    codec, txVars, rxVars>>

Clear ==
    /\ nCalls < MaxCalls
    /\ canSendMap' = ClearMap(canSendMap)
    /\ canRecvMap' = ClearMap(canRecvMap)
    /\ filterBanks' = ConfigureFilters(filterBanks, nodeId, userIds,
                                       nextUserMessageIndex, ClearMap(canRecvMap))
    /\ last' = Call("Clear", 0, 0, 0, 0, <<0, 0>>, 0, 0)
    /\ nCalls' = nCalls + 1
    /\ UNCHANGED <<lastRxTimestamp, sendBuffer, sendCnt, userVars, persistVars, codec, txVars, rxVars>>

(***************************************************************************)
(* Persistence: Save, a restart that constructs the object again over the  *)
(* same memory (Clear, LoadFromFlash, nodeId = 1, can_reset,               *)
(* ConfigureFilters), and what the surroundings do to the flash block:     *)
(* erase it, or damage a stored halfword.                                  *)
(***************************************************************************)
Save ==
    LET r == SaveImage(canSendMap, canRecvMap, flash)
    IN /\ nCalls < MaxCalls
       /\ canSendMap' = r.send
       /\ canRecvMap' = r.recv
       /\ flash' = r.flash
       /\ isSaving' = FALSE
       /\ saved' = IF flash = ErasedFlash
                   THEN [valid |-> TRUE, send |-> ActiveView(canSendMap),
                         recv |-> ActiveView(canRecvMap)]
                   ELSE NothingSaved
       /\ last' = Call("Save", 0, 0, 0, 0, <<0, 0>>, 0, 0)
       /\ nCalls' = nCalls + 1
       /\ UNCHANGED <<lastRxTimestamp, sendBuffer, sendCnt, userVars, filterBanks, codec, txVars, rxVars>>

Can ==
    LET r == LoadFromFlash(ClearMap(canSendMap), ClearMap(canRecvMap), flash)
    IN /\ nCalls < MaxCalls
       /\ canSendMap' = r.send
       /\ canRecvMap' = r.recv
       /\ lastRxTimestamp' = <<0, 0>>
       /\ sendCnt' = 0
       /\ nextUserMessageIndex' = 0
       /\ nodeId' = 1
       /\ filterBanks' = ConfigureFilters([b \in 1..NumBanks |-> BankOff], 1, userIds,
                                          0, r.recv)
       /\ last' = Call("Can", 0, 0, 0, 0, <<0, 0>>, 0, r.ret)
       /\ nCalls' = nCalls + 1
       /\ tmeie' = FALSE
       /\ UNCHANGED fg
       /\ UNCHANGED <<sendBuffer, userIds, persistVars, codec, canTx, rxVars>>

EraseFlash ==
    /\ flash # ErasedFlash
    /\ flash' = ErasedFlash
    /\ saved' = NothingSaved
    /\ UNCHANGED <<objVars, userVars, filterBanks, isSaving, codec, txVars, last, nCalls, rxVars>>

FlipBit0(h) == IF h % 2 = 0 THEN h + 1 ELSE h - 1

CorruptFlash(a) ==
    /\ flash # ErasedFlash
    /\ flash' = [flash EXCEPT ![a + 1] = FlipBit0(@)]
    /\ saved' = NothingSaved
    /\ UNCHANGED <<objVars, userVars, filterBanks, isSaving, codec, txVars, last, nCalls, rxVars>>


(***************************************************************************)
(* One field through the codec: SendAll encodes the parameter value into a *)
(* fresh payload, HandleRx decodes the payload with the same mapping. Each *)
(* evaluates (1 << numBits) - 1 on its own.                                *)
(***************************************************************************)
EncodeField ==
    /\ codec.stage = "value"
    /\ \E mask \in FieldMasks(codec.pos.numBits) :
          codec' = [codec EXCEPT
                      !.stage = "encoded",
                      !.data = Encode(<<<<0, 0>>, <<0, 0>>>>, codec.fp, codec.pos, mask)]
    /\ UNCHANGED <<objVars, userVars, filterBanks, persistVars, txVars, last, nCalls, rxVars>>

DecodeField ==
    /\ codec.stage = "encoded"
    /\ \E mask \in FieldMasks(codec.pos.numBits) :
          codec' = [codec EXCEPT
                      !.stage = "decoded",
                      !.val = Decode(codec.data, codec.pos, mask)]
    /\ UNCHANGED <<objVars, userVars, filterBanks, persistVars, txVars, last, nCalls, rxVars>>

(***************************************************************************)
(* Can::Send, called from the foreground, and Can::HandleTx, the transmit  *)
(* interrupt: it is taken when CAN_IER_TMEIE is set and a mailbox is free. *)
(***************************************************************************)
\* Can::Send without the can_enable_irq at its end
Send_LeavesIrqOff(canId, data, len) ==
    LET r == SendFrame(canTx, sendBuffer, sendCnt,
                       SENDBUFFER(U32(canId), U32(len), data[1], data[2]))
    IN /\ nCalls < MaxCalls
       /\ canTx' = r.hw
       /\ sendBuffer' = r.buf
       /\ sendCnt' = r.cnt
       /\ tmeie' = FALSE
       /\ UNCHANGED fg
       /\ last' = Call("Send", 0, canId, 0, len, <<0, 0>>, 0, r.ret)
       /\ nCalls' = nCalls + 1
       /\ UNCHANGED <<canSendMap, canRecvMap, lastRxTimestamp, userVars, filterBanks,
                      persistVars, codec, rxVars>>

Send(canId, data, len) ==
    LET r == SendFrame(canTx, sendBuffer, sendCnt,
                       SENDBUFFER(U32(canId), U32(len), data[1], data[2]))
    IN /\ nCalls < MaxCalls
       /\ canTx' = r.hw
       /\ sendBuffer' = r.buf
       /\ sendCnt' = r.cnt
       /\ tmeie' = (r.cnt > 0)
       /\ UNCHANGED fg
       /\ last' = Call("Send", 0, canId, 0, len, <<0, 0>>, 0, r.ret)
       /\ nCalls' = nCalls + 1
       /\ UNCHANGED <<canSendMap, canRecvMap, lastRxTimestamp, userVars, filterBanks,
                      persistVars, codec, rxVars>>

\* Can::HandleTx without the can_disable_irq at its end
HandleTx_KeepsIrq ==
    LET r == HandleTxLoop(canTx, sendBuffer, sendCnt)
    IN /\ tmeie
       /\ canTx.rejects = 0
       /\ canTx' = r.hw
       /\ sendBuffer' = r.buf
       /\ sendCnt' = r.cnt
       /\ tmeie' = tmeie
       /\ UNCHANGED fg
       /\ UNCHANGED <<canSendMap, canRecvMap, lastRxTimestamp, userVars, filterBanks,
                      persistVars, codec, last, nCalls, rxVars>>

HandleTx ==
    LET r == HandleTxLoop(canTx, sendBuffer, sendCnt)
    IN /\ tmeie
       /\ canTx.rejects = 0
       /\ canTx' = r.hw
       /\ sendBuffer' = r.buf
       /\ sendCnt' = r.cnt
       /\ tmeie' = IF r.cnt = 0 THEN FALSE ELSE tmeie
       /\ UNCHANGED fg
       /\ UNCHANGED <<canSendMap, canRecvMap, lastRxTimestamp, userVars, filterBanks,
                      persistVars, codec, last, nCalls, rxVars>>

(***************************************************************************)
(* Arguments of the calls.                                                 *)
(***************************************************************************)
Params == {1, 2}
\* 0x100, 0x200, 0x300
CanIds == {256, 512, 768}
\* 0x20000000
BadCanId == MaxCanId + 1
\* 1.0f and 2.0f
Gain1 == <<16256, 0>>
Gain2 == <<16384, 0>>

Shape(offsetBits, length, gain, offset) ==
    [offsetBits |-> offsetBits, length |-> length, gain |-> gain, offset |-> offset]

\* mappings in range, and one with offsetBits out of range
Shapes == {Shape(0, 8, Gain1, 0), Shape(64, 16, Gain2, 0)}
\* zero width, too wide, translation above 63
EdgeShapes == {Shape(8, 0, Gain1, 0), Shape(0, 33, Gain1, 0), Shape(0, 8, Gain1, 64)}

AddArgs ==
    {[param |-> p, canId |-> c, shape |-> s] : p \in Params, c \in CanIds, s \in Shapes}
    \cup {[param |-> 1, canId |-> 256, shape |-> s] : s \in EdgeShapes}
    \cup {[param |-> 1, canId |-> BadCanId, shape |-> Shape(0, 8, Gain1, 0)]}

Next ==
    \/ \E a \in AddArgs :
          AddSend(a.param, a.canId, a.shape.offsetBits, a.shape.length,
                  a.shape.gain, a.shape.offset)
    \/ \E a \in AddArgs :
          AddRecv(a.param, a.canId, a.shape.offsetBits, a.shape.length,
                  a.shape.gain, a.shape.offset)
    \/ \E p \in Params : Remove(p)
    \/ Clear

Spec == Init /\ [][Next]_vars

(***************************************************************************)
(* Persistence on its own: mappings in range, Save, restart, and the flash *)
(* block erased or damaged in between.                                     *)
(***************************************************************************)
PersistIds == {256, 512}
\* the low halfword of a stored id, a stored parameter, the checksum word
CorruptAddrs == {SENDMAP_ADDRESS, RECVMAP_ADDRESS + 2, CRC_ADDRESS}

NextPersist ==
    \/ \E p \in Params : AddSend(p, 256, 0, 8, Gain1, 0)
    \/ \E p \in Params, c \in PersistIds : AddRecv(p, c, 8, 16, Gain2, 0)
    \/ Save
    \/ Can
    \/ EraseFlash
    \/ \E a \in CorruptAddrs : CorruptFlash(a)

SpecPersist == Init /\ [][NextPersist]_vars

(***************************************************************************)
(* The codec on its own: parameter values (as s32fp: 0, 0.5, 1, 1.5, 3,    *)
(* 100.25), gains 1, 2 and 0.5, translations, and fields inside a word,    *)
(* across the two words, of full width and too narrow for the value. A     *)
(* value that is negative after gain and translation is left out: its      *)
(* conversion to uint32_t is undefined.                                    *)
(***************************************************************************)
GainHalf == <<16128, 0>>
CodecValues == {0, 16, 32, 48, 96, 3208}
CodecGains == {Gain1, Gain2, GainHalf}
CodecOffsets == {0, 1, -1}
CodecFields == {<<0, 8>>, <<8, 16>>, <<40, 8>>, <<24, 16>>, <<0, 32>>, <<0, 4>>}

\* the float fval of SendAll as a fraction <<num, den>>
FVal(fp, pos) ==
    <<fp * FloatValue(pos.gain)[1] + pos.offset * Pow2(FRAC_DIGITS) * FloatValue(pos.gain)[2],
      Pow2(FRAC_DIGITS) * FloatValue(pos.gain)[2]>>

CodecInputs ==
    {c \in {[stage |-> "value", fp |-> v, pos |-> CANPOS(1, t, g, f[1], f[2]),
             data |-> <<<<0, 0>>, <<0, 0>>>>, val |-> 0] :
                v \in CodecValues, g \in CodecGains, t \in CodecOffsets,
                f \in CodecFields} :
        FVal(c.fp, c.pos)[1] >= 0}

InitCodec ==
    /\ InitCan
    /\ codec \in CodecInputs
    /\ tmeie = FALSE
    /\ canTx = CanTx(0, <<>>)

NextCodec == EncodeField \/ DecodeField

SpecCodec == InitCodec /\ [][NextCodec]_vars

(***************************************************************************)
(* The transmit queue on its own: the hardware finds no free mailbox for   *)
(* the first TxRejects calls of can_transmit and takes every later frame.  *)
(***************************************************************************)
TxRejects == 2
\* 0x101 .. 0x104
TxIds == {257, 258, 259, 260}
TxData(canId) == <<U32(canId), U32(canId + 1)>>

InitQueue ==
    /\ InitCan
    /\ codec = NoField
    /\ tmeie = FALSE
    /\ canTx = CanTx(TxRejects, <<>>)

NextQueue ==
    \/ \E c \in TxIds : Send(c, TxData(c), 8)
    \/ HandleTx

SpecQueue == InitQueue /\ [][NextQueue]_vars

(***************************************************************************)
(* The transmit queue with a busy bus: the mailboxes are full for longer   *)
(* than the queue has room, until a transmission completes and a mailbox   *)
(* is free again (from then on the hardware takes what it is given).       *)
(***************************************************************************)
TxBusy == SENDBUFFER_LEN + 1

MailboxFrees ==
    /\ canTx.rejects > 0
    /\ canTx' = [canTx EXCEPT !.rejects = 0]
    /\ UNCHANGED <<objVars, userVars, filterBanks, persistVars, codec, tmeie, fg, last, nCalls,
                   rxVars>>

InitBusy ==
    /\ InitCan
    /\ codec = NoField
    /\ tmeie = FALSE
    /\ canTx \in {CanTx(n, <<>>) : n \in 0..TxBusy}

NextBusy ==
    \/ \E c \in TxIds : Send(c, TxData(c), 8)
    \/ HandleTx
    \/ MailboxFrees

SpecBusy == InitBusy /\ [][NextBusy]_vars

\* the hardware frees a slot in the end, and an enabled transmit interrupt with a
\* free mailbox is taken in the end
FairBusy == SpecBusy /\ WF_vars(MailboxFrees) /\ WF_vars(HandleTx)

(***************************************************************************)
(* Can::Save in two steps, for the callers that interrupt it: SaveBegin    *)
(* sets isSaving and puts the unique ids into the tables, SaveEnd programs *)
(* the flash block, restores the enumerators and clears isSaving.          *)
(***************************************************************************)
SaveBegin ==
    /\ nCalls < MaxCalls
    /\ ~isSaving
    /\ isSaving' = TRUE
    /\ canSendMap' = ReplaceParamEnumByUid(canSendMap)
    /\ canRecvMap' = ReplaceParamEnumByUid(canRecvMap)
    /\ last' = Call("Save", 0, 0, 0, 0, <<0, 0>>, 0, 0)
    /\ nCalls' = nCalls + 1
    /\ UNCHANGED <<lastRxTimestamp, sendBuffer, sendCnt, userVars, filterBanks, flash, saved,
                   codec, txVars, rxVars>>

SaveEnd ==
    LET s1 == SaveToFlash([crc |-> U32(crc_reset), flash |-> flash], SENDMAP_ADDRESS,
                          FlatTable(canSendMap, 1), SENDMAP_WORDS)
        s2 == SaveToFlash(s1, RECVMAP_ADDRESS, FlatTable(canRecvMap, 1), RECVMAP_WORDS)
        s3 == SaveToFlash(s2, CRC_ADDRESS, HW(s2.crc), 1)
    IN /\ isSaving
       /\ flash' = s3.flash
       /\ canSendMap' = ReplaceParamUidByEnum(canSendMap)
       /\ canRecvMap' = ReplaceParamUidByEnum(canRecvMap)
       /\ isSaving' = FALSE
       /\ saved' = NothingSaved
       /\ UNCHANGED <<lastRxTimestamp, sendBuffer, sendCnt, userVars, filterBanks, codec,
                      txVars, last, nCalls, rxVars>>

(***************************************************************************)
(* Can::SendAll. Each active message starts from a zero payload; each of   *)
(* its active fields tests isSaving (and returns from SendAll when set),   *)
(* reads its parameter and is encoded into the payload; after the fields   *)
(* the payload goes to Send(canId, data), with length 8. st carries the    *)
(* hardware, the queue, whether Send has run, and the log of the run.      *)
(***************************************************************************)
\* Param::GetFloat as the s32fp the float stands for
GetFloat(store, p) == store[p]

RECURSIVE EncodeItems(_, _, _, _, _, _)
EncodeItems(data, msg, store, m32, k, n) ==
    IF k > n THEN data
    ELSE EncodeItems(Encode(data, GetFloat(store, msg.items[k].mapParam), msg.items[k],
                            IF msg.items[k].numBits >= 32 THEN m32
                            ELSE CHOOSE mk \in FieldMasks(msg.items[k].numBits) : TRUE),
                     msg, store, m32, k + 1, n)

SendAllStart(hw, buf, cnt) ==
    [hw |-> hw, buf |-> buf, cnt |-> cnt, sends |-> <<>>, reads |-> <<>>]

RECURSIVE SendAllLoop(_, _, _, _, _, _)
SendAllLoop(canMap, store, saving, m32, st, i) ==
    IF i > forEachCanMap(canMap) THEN st
    ELSE IF saving /\ forEachPosMap(canMap[i]) > 0 THEN st
    ELSE LET n == forEachPosMap(canMap[i])
             data == EncodeItems(<<<<0, 0>>, <<0, 0>>>>, canMap[i], store, m32, 1, n)
             frame == SENDBUFFER(canMap[i].canId, U32(8), data[1], data[2])
             r == SendFrame(st.hw, st.buf, st.cnt, frame)
         IN SendAllLoop(canMap, store, saving, m32,
                        [hw |-> r.hw, buf |-> r.buf, cnt |-> r.cnt,
                         sends |-> Append(st.sends, frame),
                         reads |-> st.reads \o [k \in 1..n |-> canMap[i].items[k].mapParam]],
                        i + 1)

SendAll ==
    /\ nCalls < MaxCalls
    /\ \E m32 \in FieldMasks(32) :
          LET r == SendAllLoop(canSendMap, params, isSaving, m32,
                               SendAllStart(canTx, sendBuffer, sendCnt), 1)
          IN /\ canTx' = r.hw
             /\ sendBuffer' = r.buf
             /\ sendCnt' = r.cnt
             /\ tmeie' = IF r.sends = <<>> THEN tmeie ELSE (r.cnt > 0)
             /\ UNCHANGED fg
             /\ io' = [NoIo EXCEPT !.op = "SendAll", !.reads = r.reads, !.sends = r.sends,
                                   !.saving = isSaving]
    /\ last' = Call("SendAll", 0, 0, 0, 0, <<0, 0>>, 0, 0)
    /\ nCalls' = nCalls + 1
    /\ UNCHANGED <<canSendMap, canRecvMap, lastRxTimestamp, userVars, filterBanks,
                   persistVars, codec, params>>

(***************************************************************************)
(* SendAll around a Save that it interrupts: outbound mappings with a      *)
(* field of 8 bits and with a width of 0 (which Add takes).                *)
(***************************************************************************)
SavingIds == {256, 512}
SavingWidths == {8, 0}

\* Save does not return before it is done, so the foreground makes no other call
\* meanwhile; SendAll comes from a timer interrupt
NextSaving ==
    \/ /\ ~isSaving
       /\ \E p \in Params, c \in SavingIds, w \in SavingWidths :
             AddSend(p, c, 0, w, Gain1, 0)
    \/ SaveBegin
    \/ SaveEnd
    \/ SendAll

SpecSaving == Init /\ [][NextSaving]_vars

(***************************************************************************)
(* The parameter store as the receive side uses it (external to this       *)
(* file): Param::Set stores a value inside the parameter's limits and      *)
(* returns 0, and returns -1 otherwise; Param::SetFixed stores without the *)
(* test; Param::IsParam tells the parameters from the display values (the  *)
(* last entry of the enum here). An index past the store has no entry to   *)
(* set, and Param::Get reads whatever lies behind the store (beyond).      *)
(***************************************************************************)
ParamMin == 0
ParamMax == 3200

IsParam(p) == p < PARAM_LAST - 1

ParamSet(store, p, val) ==
    IF p \in DOMAIN store /\ val >= ParamMin /\ val <= ParamMax
    THEN [store |-> [store EXCEPT ![p] = val], ret |-> 0]
    ELSE [store |-> store, ret |-> -1]

ParamSetFixed(store, p, val) ==
    IF p \in DOMAIN store THEN [store EXCEPT ![p] = val] ELSE store

ParamGet(store, p, beyond) == IF p \in DOMAIN store THEN store[p] ELSE beyond

(***************************************************************************)
(* struct CAN_SDO laid over the payload (packed, little endian): cmd is    *)
(* byte 0, index bytes 1-2, subIndex byte 3, data the second word.         *)
(***************************************************************************)
SDO_WRITE == 64
SDO_READ == 34
SDO_ABORT == 128
SDO_WRITE_REPLY == 35
SDO_READ_REPLY == 67
SDO_ERR_INVIDX == <<1538, 0>>
SDO_ERR_RANGE == <<1545, 48>>

CAN_SDO(data) ==
    [cmd |-> data[1][2] % 256,
     index |-> (data[1][2] \div 256) + (data[1][1] % 256) * 256,
     subIndex |-> data[1][1] \div 256,
     data |-> data[2]]

\* the payload that holds the CAN_SDO sdo
SdoPayload(sdo) ==
    <<<<sdo.subIndex * 256 + (sdo.index \div 256), (sdo.index % 256) * 256 + sdo.cmd>>,
      sdo.data>>

\* (float)n of an integer 0 <= n < 2^16, as the bits of the float
FloatOfInt(n) ==
    IF n = 0 THEN <<0, 0>>
    ELSE LET e == CHOOSE k \in 0..15 : Pow2(k) <= n /\ n < 2 * Pow2(k)
             mant == (n - Pow2(e)) * Pow2(23 - e)
         IN <<(e + 127) * 128 + (mant \div 65536), mant % 65536>>

(***************************************************************************)
(* One run of HandleRx carries: the object, the parameter store, the       *)
(* filter banks, the transmit hardware, and the log of what was done.      *)
(***************************************************************************)
RxStart(o, store, banks, hw) ==
    [obj |-> o, store |-> store, banks |-> banks, hw |-> hw,
     paths |-> <<>>, reads |-> <<>>, sets |-> <<>>, sends |-> <<>>, callbacks |-> <<>>]

\* Can::Send(canId, data) from inside the run
RxSend(st, canId, data) ==
    LET frame == SENDBUFFER(U32(canId), U32(8), data[1], data[2])
        r == SendFrame(st.hw, st.obj.buf, st.obj.cnt, frame)
    IN [st EXCEPT !.hw = r.hw, !.obj.buf = r.buf, !.obj.cnt = r.cnt,
                  !.sends = Append(@, frame)]

(***************************************************************************)
(* Can::ProcessSDO. node, users and nextUser are the members that          *)
(* ConfigureFilters reads when AddRecv has run.                            *)
(***************************************************************************)
\* the parameter range without the test of Param::Set's result
SdoParam_AcksAlways(st, sdo, beyond) ==
    LET paramIdx == IF sdo.index = 8193 THEN NumFromId(sdo.subIndex) ELSE sdo.subIndex
        w == ParamSet(st.store, paramIdx, I32(sdo.data))
    IN IF sdo.cmd = SDO_WRITE
       THEN [st |-> [st EXCEPT !.store = w.store,
                               !.sets = Append(@, <<paramIdx, I32(sdo.data)>>)],
             sdo |-> [sdo EXCEPT !.cmd = SDO_WRITE_REPLY]]
       ELSE IF sdo.cmd = SDO_READ
       THEN [st |-> [st EXCEPT !.reads = Append(@, paramIdx)],
             sdo |-> [sdo EXCEPT !.cmd = SDO_READ_REPLY,
                                 !.data = U32(ParamGet(st.store, paramIdx, beyond))]]
       ELSE [st |-> st, sdo |-> sdo]

SdoParam(st, sdo, beyond) ==
    LET paramIdx == IF sdo.index = 8193 THEN NumFromId(sdo.subIndex) ELSE sdo.subIndex
        w == ParamSet(st.store, paramIdx, I32(sdo.data))
    IN IF sdo.cmd = SDO_WRITE
       THEN [st |-> [st EXCEPT !.store = w.store,
                               !.sets = Append(@, <<paramIdx, I32(sdo.data)>>)],
             sdo |-> IF w.ret = 0 THEN [sdo EXCEPT !.cmd = SDO_WRITE_REPLY]
                     ELSE [sdo EXCEPT !.cmd = SDO_ABORT, !.data = SDO_ERR_RANGE]]
       ELSE IF sdo.cmd = SDO_READ
       THEN [st |-> [st EXCEPT !.reads = Append(@, paramIdx)],
             sdo |-> [sdo EXCEPT !.cmd = SDO_READ_REPLY,
                                 !.data = U32(ParamGet(st.store, paramIdx, beyond))]]
       ELSE [st |-> st, sdo |-> sdo]

SdoMap(st, sdo, node, users, nextUser) ==
    LET offset == sdo.data[2] % 256
        len == (sdo.data[2] \div 256) % 256
        gain == FloatOfInt(sdo.data[1])
        isRecv == (sdo.index \div 16384) % 2 = 1
        r == Add(st.obj, IF isRecv THEN "recv" ELSE "send", sdo.subIndex, sdo.index % 2048,
                 offset, len, gain, 0)
    IN IF sdo.cmd = SDO_WRITE
       THEN [st |-> [st EXCEPT !.obj = r.obj,
                               !.banks = IF isRecv
                                         THEN ConfigureFilters(@, node, users, nextUser,
                                                               r.obj.recv)
                                         ELSE @],
             sdo |-> IF r.ret >= 0 THEN [sdo EXCEPT !.cmd = SDO_WRITE_REPLY]
                     ELSE [sdo EXCEPT !.cmd = SDO_ABORT, !.data = SDO_ERR_RANGE]]
       ELSE [st |-> st, sdo |-> sdo]

\* ProcessSDO that answers nothing when it refuses the index
ProcessSDO_SilentOnAbort(st, data, node, users, nextUser, beyond) ==
    LET sdo == CAN_SDO(data)
    IN IF sdo.index >= 8192 /\ sdo.index <= 8193 /\ sdo.subIndex < PARAM_LAST
       THEN RxSend(SdoParam(st, sdo, beyond).st, 1408 + node,
                   SdoPayload(SdoParam(st, sdo, beyond).sdo))
       ELSE IF sdo.index >= 12288 /\ sdo.index < 18432 /\ sdo.subIndex < PARAM_LAST
       THEN RxSend(SdoMap(st, sdo, node, users, nextUser).st, 1408 + node,
                   SdoPayload(SdoMap(st, sdo, node, users, nextUser).sdo))
       ELSE st

ProcessSDO(st, data, node, users, nextUser, beyond) ==
    LET sdo == CAN_SDO(data)
        r == IF sdo.index >= 8192 /\ sdo.index <= 8193 /\ sdo.subIndex < PARAM_LAST
             THEN SdoParam(st, sdo, beyond)
             ELSE IF sdo.index >= 12288 /\ sdo.index < 18432 /\ sdo.subIndex < PARAM_LAST
             THEN SdoMap(st, sdo, node, users, nextUser)
             ELSE [st |-> st, sdo |-> [sdo EXCEPT !.cmd = SDO_ABORT, !.data = SDO_ERR_INVIDX]]
    IN RxSend(r.st, 1408 + node, SdoPayload(r.sdo))

(***************************************************************************)
(* Can::HandleRx, the fields of a mapped message: decode, then Param::Set  *)
(* for a parameter and Param::SetFixed for a display value.                *)
(***************************************************************************)
RECURSIVE DecodeItems(_, _, _, _, _)
DecodeItems(st, msg, data, m32, k) ==
    IF k > forEachPosMap(msg) THEN st
    ELSE LET pos == msg.items[k]
             val == Decode(data, pos, IF pos.numBits >= 32 THEN m32
                                      ELSE CHOOSE mk \in FieldMasks(pos.numBits) : TRUE)
         IN DecodeItems([st EXCEPT !.store = IF IsParam(pos.mapParam)
                                             THEN ParamSet(@, pos.mapParam, val).store
                                             ELSE ParamSetFixed(@, pos.mapParam, val),
                                   !.sets = Append(@, <<pos.mapParam, val>>)],
                        msg, data, m32, k + 1)

(***************************************************************************)
(* Can::HandleRx: the frames waiting in the receive FIFO, one after the    *)
(* other. paths records what became of each frame.                         *)
(***************************************************************************)
RxFrame(id, len, data) == [id |-> id, len |-> len, data |-> data]

RECURSIVE HandleRxLoop(_, _, _, _, _, _, _, _, _)
HandleRxLoop(st, frames, k, saving, node, users, nextUser, m32, beyond) ==
    IF k > Len(frames) THEN st
    ELSE
      LET f == frames[k]
          recvMap == FindById(st.obj.recv, U32(f.id))
          st1 ==
            IF f.id = 1536 + node /\ f.len = 8
            THEN [ProcessSDO(st, f.data, node, users, nextUser, beyond)
                     EXCEPT !.paths = Append(@, "sdo")]
            ELSE IF saving THEN [st EXCEPT !.paths = Append(@, "none")]
            ELSE IF recvMap # 0
            THEN [DecodeItems(st, st.obj.recv[recvMap], f.data, m32, 1)
                     EXCEPT !.paths = Append(@, "decode")]
            ELSE [st EXCEPT !.paths = Append(@, "callback"),
                            !.callbacks = Append(@, <<f.id, f.data>>)]
      IN HandleRxLoop(st1, frames, k + 1, saving, node, users, nextUser, m32, beyond)

\* what Param::Get may find behind the parameter store, for the runs that read
\* there: a read request by unique id whose id no parameter has
Beyond == {0, 7}

ReadsBeyond(frames, node) ==
    \E k \in 1..Len(frames) :
       /\ frames[k].id = 1536 + node /\ frames[k].len = 8
       /\ CAN_SDO(frames[k].data).cmd = SDO_READ
       /\ CAN_SDO(frames[k].data).index = 8193
       /\ CAN_SDO(frames[k].data).subIndex < PARAM_LAST
       /\ NumFromId(CAN_SDO(frames[k].data).subIndex) = PARAM_INVALID

\* the values (1 << 32) - 1 may take, for the tables that hold a field of 32 bits
Masks32(canMap) ==
    IF \E i \in MsgIdx, j \in ItemIdx : canMap[i].items[j].numBits >= 32
    THEN FieldMasks(32) ELSE {<<65535, 65535>>}

HandleRx(frames) ==
    /\ nCalls < MaxCalls
    /\ \E m32 \in Masks32(canRecvMap),
          beyond \in IF ReadsBeyond(frames, nodeId) THEN Beyond ELSE {0} :
          LET r == HandleRxLoop(RxStart(ThisObj, params, filterBanks, canTx), frames, 1,
                                isSaving, nodeId, userIds, nextUserMessageIndex, m32, beyond)
          IN /\ SetObj(r.obj)
             /\ params' = r.store
             /\ filterBanks' = r.banks
             /\ canTx' = r.hw
             /\ tmeie' = IF r.sends = <<>> THEN tmeie ELSE (r.obj.cnt > 0)
             /\ UNCHANGED fg
             /\ io' = [op |-> "HandleRx", frames |-> frames, paths |-> r.paths,
                       reads |-> r.reads, sets |-> r.sets, sends |-> r.sends,
                       callbacks |-> r.callbacks, saving |-> isSaving]
    /\ last' = Call("HandleRx", 0, frames[1].id, 0, frames[1].len, <<0, 0>>, 0, Len(frames))
    /\ nCalls' = nCalls + 1
    /\ UNCHANGED <<userVars, persistVars, codec>>

(***************************************************************************)
(* The receive side on its own, for node id 1: control requests in and     *)
(* around the parameter range and the mapping range, frames with a mapped  *)
(* id, with an id nothing is mapped to, and with the control id and a      *)
(* length other than 8; one or two frames wait in the FIFO. Save is        *)
(* interrupted by the receive interrupt between SaveBegin and SaveEnd.     *)
(***************************************************************************)
RxNode == 1

SdoRequest(cmd, index, subIndex, data) ==
    RxFrame(1536 + RxNode, 8,
            SdoPayload([cmd |-> cmd, index |-> index, subIndex |-> subIndex, data |-> data]))

\* the data word of a mapping request
MapWord(offsetBits, length, gain) == <<gain, length * 256 + offsetBits>>

\* a command byte that is neither SDO_WRITE nor SDO_READ
SdoOtherCmd == 85

ParamRequests ==
    {SdoRequest(SDO_WRITE, 8192, 1, U32(64)),
     SdoRequest(SDO_WRITE, 8192, 1, U32(ParamMax + 1)),
     SdoRequest(SDO_READ, 8192, 1, <<0, 0>>),
     SdoRequest(SDO_WRITE, 8193, 2, U32(96)),
     SdoRequest(SDO_READ, 8193, 0, <<0, 0>>),
     SdoRequest(SdoOtherCmd, 8192, 1, U32(64)),
     SdoRequest(SDO_WRITE, 8192, PARAM_LAST, U32(64))}

\* 0x4100 .. 0x4400: inbound ids 0x100 .. 0x400; 0x3100: outbound id 0x100
MapRequests ==
    {SdoRequest(SDO_WRITE, 16640, 1, MapWord(0, 8, 1)),
     SdoRequest(SDO_WRITE, 16640, 0, MapWord(8, 8, 1)),
     SdoRequest(SDO_WRITE, 16896, 1, MapWord(0, 8, 1)),
     SdoRequest(SDO_WRITE, 17152, 1, MapWord(0, 8, 1)),
     SdoRequest(SDO_WRITE, 17408, 1, MapWord(0, 8, 1)),
     SdoRequest(SDO_WRITE, 12544, 1, MapWord(0, 8, 1)),
     SdoRequest(SDO_WRITE, 16640, 1, MapWord(64, 8, 1)),
     SdoRequest(SDO_WRITE, 16640, 1, MapWord(0, 33, 1)),
     SdoRequest(SDO_WRITE, 16640, 1, MapWord(0, 0, 1)),
     SdoRequest(SDO_READ, 16640, 1, MapWord(0, 8, 1)),
     SdoRequest(SDO_WRITE, 16640, PARAM_LAST, MapWord(0, 8, 1))}

OtherRequests == {SdoRequest(SDO_WRITE, 20480, 1, U32(64))}

SdoRequests == ParamRequests \cup MapRequests \cup OtherRequests

DataFrames ==
    {RxFrame(256, 8, <<U32(5 + 256 * 9), <<0, 0>>>>),
     RxFrame(768, 8, <<U32(1), U32(2)>>),
     RxFrame(1536 + RxNode, 4, <<U32(SDO_WRITE), <<0, 0>>>>)}

RxFifos ==
    {<<f>> : f \in SdoRequests \cup DataFrames}
    \cup {<<RxFrame(768, 8, <<U32(1), U32(2)>>), RxFrame(768, 8, <<U32(3), U32(4)>>)>>,
          <<RxFrame(256, 8, <<U32(7), <<0, 0>>>>), SdoRequest(SDO_READ, 8192, 1, <<0, 0>>)>>}

\* the receive interrupt is taken up to RxDepth times
RxDepth == 2

NextRx ==
    \/ /\ nCalls < RxDepth
       /\ \E frames \in RxFifos : HandleRx(frames)
    \/ SaveBegin
    \/ SaveEnd

SpecRx == Init /\ [][NextRx]_vars

(***************************************************************************)
(* The mapping requests on their own, as many as MaxCalls allows, so that  *)
(* the tables fill up, followed by frames for the mapped ids.              *)
(***************************************************************************)
NextSdoMap ==
    \E frames \in {<<f>> : f \in MapRequests \cup DataFrames} : HandleRx(frames)

SpecSdoMap == Init /\ [][NextSdoMap]_vars

(***************************************************************************)
(* Can::RegisterUserMessage. The call fills the next entry of userIds and  *)
(* runs ConfigureFilters, or returns false when the list is full. The list *)
(* itself bounds the calls that change the state.                          *)
(***************************************************************************)
RegisterUserMessage(canId) ==
    /\ IF nextUserMessageIndex < MAX_USER_MESSAGES
       THEN /\ userIds' = [userIds EXCEPT ![nextUserMessageIndex + 1] = U16(canId)]
            /\ nextUserMessageIndex' = nextUserMessageIndex + 1
            /\ filterBanks' = ConfigureFilters(filterBanks, nodeId,
                                               [userIds EXCEPT
                                                  ![nextUserMessageIndex + 1] = U16(canId)],
                                               nextUserMessageIndex + 1, canRecvMap)
            /\ last' = Call("RegisterUserMessage", 0, canId, 0, 0, <<0, 0>>, 0, 1)
       ELSE /\ UNCHANGED <<userIds, nextUserMessageIndex, filterBanks>>
            /\ last' = Call("RegisterUserMessage", 0, canId, 0, 0, <<0, 0>>, 0, 0)
    /\ UNCHANGED <<objVars, nodeId, persistVars, codec, txVars, nCalls, rxVars>>

(***************************************************************************)
(* The filter planner on its own: passthrough ids registered, inbound      *)
(* mappings added, and the tables cleared.                                 *)
(***************************************************************************)
\* 0x300, 0x301
UserIds == {768, 769}

NextFilter ==
    \/ \E c \in UserIds : RegisterUserMessage(c)
    \/ \E p \in Params, c \in CanIds : AddRecv(p, c, 0, 8, Gain1, 0)
    \/ Clear

SpecFilter == Init /\ [][NextFilter]_vars

(***************************************************************************)
(* The filter planner with Remove among the calls.                         *)
(***************************************************************************)
NextFilterRemove ==
    \/ NextFilter
    \/ \E p \in Params : Remove(p)

SpecFilterRemove == Init /\ [][NextFilterRemove]_vars

(***************************************************************************)
(* Save that nothing interrupts: as one step (Save) and in its two steps   *)
(* with no other call in between, on tables that hold each parameter of    *)
(* the store.                                                              *)
(***************************************************************************)
StoreParams == 0..(PARAM_LAST - 1)

NextSave ==
    \/ /\ ~isSaving
       /\ \E p \in StoreParams : AddSend(p, 256, 0, 8, Gain1, 0)
    \/ /\ ~isSaving
       /\ \E p \in StoreParams, c \in PersistIds : AddRecv(p, c, 8, 16, Gain2, 0)
    \/ /\ ~isSaving
       /\ Save
    \/ SaveBegin
    \/ SaveEnd

SpecSave == Init /\ [][NextSave]_vars

(***************************************************************************)
(* Can::Send in the foreground, one statement a step. can1_rx0_isr         *)
(* (HandleRx, whose ProcessSDO calls Send) and can1_tx_isr (HandleTx) have *)
(* the same priority (Can::Can, lines 308-313): they interrupt the         *)
(* foreground between any two statements and run to their end. sendCnt is  *)
(* a plain int: where a statement uses it after the capacity test, the     *)
(* build may use the value the test read (fg.idx) or read it again.        *)
(***************************************************************************)
SendCntRead == {fg.idx, sendCnt}

\* Send is called; can_disable_irq(canDev, CAN_IER_TMEIE)
Send_Disable(canId, data, len) ==
    /\ fg.pc = "idle"
    /\ nCalls < MaxCalls
    /\ fg' = [NoSend EXCEPT !.pc = "transmit",
                            !.frame = SENDBUFFER(U32(canId), U32(len), data[1], data[2])]
    /\ tmeie' = FALSE
    /\ last' = Call("Send", 0, canId, 0, len, <<0, 0>>, 0, 0)
    /\ nCalls' = nCalls + 1
    /\ UNCHANGED <<objVars, userVars, filterBanks, persistVars, codec, canTx, rxVars>>

\* can_transmit(...) < 0
Send_Transmit ==
    LET t == can_transmit(canTx, fg.frame)
    IN /\ fg.pc = "transmit"
       /\ canTx' = t.hw
       /\ fg' = [fg EXCEPT !.pc = IF t.ret < 0 THEN "room" ELSE "enable"]
       /\ UNCHANGED <<objVars, userVars, filterBanks, persistVars, codec, tmeie, last,
                      nCalls, rxVars>>

\* && sendCnt < SENDBUFFER_LEN
Send_Room ==
    /\ fg.pc = "room"
    /\ fg' = [fg EXCEPT !.pc = IF sendCnt < SENDBUFFER_LEN THEN "id" ELSE "enable",
                        !.idx = sendCnt]
    /\ UNCHANGED <<objVars, userVars, filterBanks, persistVars, codec, tmeie, canTx, last,
                   nCalls, rxVars>>

\* the slot b with one word of the frame f stored into it
StoreWord(b, f, word) ==
    IF word = "id" THEN [b EXCEPT !.id = f.id]
    ELSE IF word = "len" THEN [b EXCEPT !.len = f.len]
    ELSE IF word = "data0" THEN [b EXCEPT !.data[1] = f.data[1]]
    ELSE [b EXCEPT !.data[2] = f.data[2]]

\* one of the four stores sendBuffer[sendCnt].x = ...; the store that goes beyond
\* the buffer is recorded, where it lands is not modelled
Send_Store(word, next) ==
    /\ fg.pc = word
    /\ \E i \in SendCntRead :
          IF i < SENDBUFFER_LEN
          THEN /\ sendBuffer' = [sendBuffer EXCEPT ![i + 1] = StoreWord(@, fg.frame, word)]
               /\ fg' = [fg EXCEPT !.pc = next]
          ELSE /\ sendBuffer' = sendBuffer
               /\ fg' = [fg EXCEPT !.pc = next, !.outside = TRUE]
    /\ UNCHANGED <<canSendMap, canRecvMap, lastRxTimestamp, sendCnt, userVars, filterBanks,
                   persistVars, codec, tmeie, canTx, last, nCalls, rxVars>>

Send_StoreId == Send_Store("id", "len")
Send_StoreLen == Send_Store("len", "data0")
Send_StoreData0 == Send_Store("data0", "data1")
Send_StoreData1 == Send_Store("data1", "count")

\* sendCnt++
Send_Count ==
    /\ fg.pc = "count"
    /\ \E i \in SendCntRead : sendCnt' = i + 1
    /\ fg' = [fg EXCEPT !.pc = "enable"]
    /\ UNCHANGED <<canSendMap, canRecvMap, lastRxTimestamp, sendBuffer, userVars,
                   filterBanks, persistVars, codec, tmeie, canTx, last, nCalls, rxVars>>

\* if (sendCnt > 0) can_enable_irq(canDev, CAN_IER_TMEIE); Send returns
Send_Enable ==
    /\ fg.pc = "enable"
    /\ tmeie' = IF sendCnt > 0 THEN TRUE ELSE tmeie
    /\ fg' = [fg EXCEPT !.pc = "idle"]
    /\ UNCHANGED <<objVars, userVars, filterBanks, persistVars, codec, canTx, last, nCalls,
                   rxVars>>

\* the statements of a push, from the capacity test that admits it to sendCnt++
PushPcs == {"id", "len", "data0", "data1", "count"}

\* a read request of the control channel: ProcessSDO answers it through Send
ReadRequest == SdoRequest(SDO_READ, 8192, 1, <<0, 0>>)

\* a store beyond sendBuffer, or a sendCnt beyond SENDBUFFER_LEN that HandleTx
\* would index with, is undefined behaviour: the run is followed up to there
Defined == ~fg.outside /\ sendCnt <= SENDBUFFER_LEN

InitPreempt ==
    /\ InitCan
    /\ codec = NoField
    /\ tmeie = FALSE
    /\ canTx \in {CanTx(n, <<>>) : n \in 0..TxBusy}

NextPreempt ==
    \/ Defined /\ \E c \in TxIds : Send_Disable(c, TxData(c), 8)
    \/ Defined /\ Send_Transmit
    \/ Defined /\ Send_Room
    \/ Defined /\ Send_StoreId
    \/ Defined /\ Send_StoreLen
    \/ Defined /\ Send_StoreData0
    \/ Defined /\ Send_StoreData1
    \/ Defined /\ Send_Count
    \/ Defined /\ Send_Enable
    \/ Defined /\ HandleRx(<<ReadRequest>>)
    \/ Defined /\ HandleTx
    \/ Defined /\ MailboxFrees

SpecPreempt == InitPreempt /\ [][NextPreempt]_vars

(***************************************************************************)
(* Vocabulary of the properties.                                           *)
(***************************************************************************)
IsAdd(c) == c.op \in {"AddSend", "AddRecv"}
\* the step is an API call (and not a stuttering step)
IsCall == nCalls' = nCalls + 1
\* the table the call in c works on, before and after the step
TableOf(c) == IF c.op = "AddRecv" THEN canRecvMap ELSE canSendMap
TableOfNext(c) == IF c.op = "AddRecv" THEN canRecvMap' ELSE canSendMap'
\* Add's own validation lets the call through
PassesValidation(c) == c.canId <= MaxCanId /\ c.offset <= 63 /\ c.length <= 32
\* the documented ranges, with offsetBits as wide as its uint8_t
InRange(c) ==
    /\ c.canId >= 0 /\ c.canId <= MaxCanId
    /\ c.offsetBits >= 0 /\ c.offsetBits <= 255
    /\ c.length >= 1 /\ c.length <= 32
\* what FindMap must report for the mapping given to the Add call c
Given(c) ==
    [found |-> TRUE, canId |-> c.canId, offset |-> c.offsetBits, length |-> c.length,
     gain |-> c.gain, rx |-> (c.op = "AddRecv")]
NumMapped(send, recv, param) ==
    Cardinality(Hits(send, param)) + Cardinality(Hits(recv, param))
\* the active mappings of a table, in table and slot order
RECURSIVE Mappings(_, _)
Mappings(canMap, i) ==
    IF i > forEachCanMap(canMap) THEN <<>>
    ELSE [j \in 1..forEachPosMap(canMap[i]) |->
             [canId |-> canMap[i].canId, item |-> canMap[i].items[j]]]
         \o Mappings(canMap, i + 1)

(***************************************************************************)
(* C1. Original statement: in every state, after a successful AddSend or   *)
(* AddRecv, FindMap of the same parameter reports exactly the id,          *)
(* offsetBits, width, gain and direction of that call.                     *)
(***************************************************************************)
C1_AddThenFindAnyState ==
    (IsAdd(last) /\ last.ret >= 0) =>
        FindMap(canSendMap, canRecvMap, last.param) = Given(last)

(***************************************************************************)
(* C1, amended: a successful Add of a parameter that had no active mapping *)
(* in either table, with arguments in range and into a message that had a  *)
(* free field slot, is followed by a FindMap reporting exactly that        *)
(* mapping.                                                                *)
(***************************************************************************)
HasFreeSlot(canMap, canId) ==
    \/ FindById(canMap, U32(canId)) = 0
    \/ forEachPosMap(canMap[FindById(canMap, U32(canId))]) < MAX_ITEMS_PER_MESSAGE

C1_AddThenFind ==
    [][(/\ IsCall
        /\ IsAdd(last')
        /\ last'.ret >= 0
        /\ InRange(last')
        /\ ~FindMap(canSendMap, canRecvMap, last'.param).found
        /\ HasFreeSlot(TableOf(last'), last'.canId))
       => FindMap(canSendMap', canRecvMap', last'.param) = Given(last')]_vars

C1_Witness ==
    /\ last.op = "AddRecv"
    /\ last.ret = 2
    /\ InRange(last)
    /\ NumMapped(canSendMap, canRecvMap, last.param) = 1
    /\ FindMap(canSendMap, canRecvMap, last.param) = Given(last)

(***************************************************************************)
(* C2. Add rejects an id above 0x1FFFFFFF with InvalidId, a bit offset     *)
(* above 63 with InvalidOffset and a width above 32 with InvalidLength,    *)
(* and leaves both tables unchanged in each case.                          *)
(***************************************************************************)
C2_Expected(c) ==
    IF c.canId > MaxCanId THEN CAN_ERR_INVALID_ID
    ELSE IF c.offsetBits > 63 THEN CAN_ERR_INVALID_OFS
    ELSE IF c.length > 32 THEN CAN_ERR_INVALID_LEN
    ELSE 0

C2_ArgumentsValidated ==
    [][(IsCall /\ IsAdd(last') /\ C2_Expected(last') # 0)
       => /\ last'.ret = C2_Expected(last')
          /\ canSendMap' = canSendMap
          /\ canRecvMap' = canRecvMap]_vars

(***************************************************************************)
(* C3. In a table with MAX_MESSAGES active messages, an Add that passes    *)
(* the validation returns MaxMessages and leaves the table unchanged when  *)
(* the id is not in the table, and never returns MaxMessages when it is.   *)
(***************************************************************************)
C3_MaxMessages ==
    [][(/\ IsCall
        /\ IsAdd(last')
        /\ PassesValidation(last')
        /\ forEachCanMap(TableOf(last')) = MAX_MESSAGES)
       => IF \E i \in MsgIdx : TableOf(last')[i].canId = U32(last'.canId)
          THEN last'.ret # CAN_ERR_MAXMESSAGES
          ELSE /\ last'.ret = CAN_ERR_MAXMESSAGES
               /\ TableOfNext(last') = TableOf(last')]_vars

C3_Witness ==
    /\ IsAdd(last)
    /\ last.ret = CAN_ERR_MAXMESSAGES
    /\ forEachCanMap(TableOf(last)) = MAX_MESSAGES
    /\ \A i \in MsgIdx : TableOf(last)[i].canId # U32(last.canId)

(***************************************************************************)
(* C4. An Add (passing the validation) for the id of a message that holds  *)
(* MAX_ITEMS_PER_MESSAGE active fields returns MaxItems and changes        *)
(* nothing: not that message, no other slot, no adjacent member.           *)
(***************************************************************************)
C4_MaxItems ==
    [][(/\ IsCall
        /\ IsAdd(last')
        /\ PassesValidation(last')
        /\ FindById(TableOf(last'), U32(last'.canId)) # 0
        /\ ~HasFreeSlot(TableOf(last'), last'.canId))
       => /\ last'.ret = CAN_ERR_MAXITEMS
          /\ UNCHANGED objVars]_vars

(***************************************************************************)
(* C5. After Remove(param): FindMap(param) finds nothing, the result is    *)
(* the number of active mappings of param in both tables before the call,  *)
(* and the mappings of every other parameter are all still there, with     *)
(* their id and fields, in the same order.                                 *)
(***************************************************************************)
OthersOf(canMap, param) ==
    SelectSeq(Mappings(canMap, 1), LAMBDA m : m.item.mapParam # param)

C5_Remove ==
    [][(IsCall /\ last'.op = "Remove")
       => /\ ~FindMap(canSendMap', canRecvMap', last'.param).found
          /\ last'.ret = NumMapped(canSendMap, canRecvMap, last'.param)
          /\ Mappings(canSendMap', 1) = OthersOf(canSendMap, last'.param)
          /\ Mappings(canRecvMap', 1) = OthersOf(canRecvMap, last'.param)]_vars

C5_Witness ==
    /\ last.op = "Remove"
    /\ last.ret = 1
    /\ Len(Mappings(canSendMap, 1)) + Len(Mappings(canRecvMap, 1)) = 1

(***************************************************************************)
(* C6. Remove of a parameter without active mapping returns 0 and leaves   *)
(* the active messages and their fields of both tables as they were.       *)
(***************************************************************************)
C6_RemoveAbsent ==
    [][(/\ IsCall
        /\ last'.op = "Remove"
        /\ NumMapped(canSendMap, canRecvMap, last'.param) = 0)
       => /\ last'.ret = 0
          /\ ActiveView(canSendMap') = ActiveView(canSendMap)
          /\ ActiveView(canRecvMap') = ActiveView(canRecvMap)]_vars

(***************************************************************************)
(* C7. Save onto the erased flash block followed by a restart (Clear, then *)
(* LoadFromFlash) with the block untouched in between: LoadFromFlash       *)
(* returns 1 and both tables hold exactly the active messages, with their  *)
(* active fields in order, that they held before Save.                     *)
(***************************************************************************)
C7_SaveThenLoad ==
    [][(IsCall /\ last'.op = "Can" /\ saved.valid) =>
          /\ last'.ret = 1
          /\ ActiveView(canSendMap') = saved.send
          /\ ActiveView(canRecvMap') = saved.recv]_vars

\* a restart has adopted a stored receive mapping
C7_Witness ==
    /\ last.op = "Can" /\ last.ret = 1
    /\ saved.valid /\ saved.recv # <<>>
    /\ ActiveView(canRecvMap) = saved.recv

(***************************************************************************)
(* C8. A restart that finds the checksum computed over the two stored      *)
(* tables different from the stored checksum word: LoadFromFlash returns 0 *)
(* and both tables are empty, exactly as Clear left them.                  *)
(***************************************************************************)
C8_ChecksumMismatch ==
    [][(IsCall /\ last'.op = "Can" /\ StoredCrc(flash) # ComputedCrc(flash)) =>
          /\ last'.ret = 0
          /\ forEachCanMap(canSendMap') = 0
          /\ forEachCanMap(canRecvMap') = 0
          /\ canSendMap' = ClearMap(canSendMap)
          /\ canRecvMap' = ClearMap(canRecvMap)]_vars

\* a restart has rejected a damaged block that stores an active message
C8_Witness ==
    /\ last.op = "Can" /\ last.ret = 0
    /\ flash # ErasedFlash
    /\ StoredCrc(flash) # ComputedCrc(flash)
    /\ forEachCanMap(UnflatTable(flash, SENDMAP_ADDRESS))
         + forEachCanMap(UnflatTable(flash, RECVMAP_ADDRESS)) > 0
    /\ forEachCanMap(canSendMap) = 0 /\ forEachCanMap(canRecvMap) = 0

(***************************************************************************)
(* C9. Original statement: a value encoded as SendAll does and decoded as  *)
(* HandleRx does with the same offsetBits, width, gain and translation,    *)
(* the field lying inside one 32-bit word and the encoded value fitting    *)
(* the width, comes back to within one unit (2^FRAC_DIGITS digits of the   *)
(* fixed-point value, the widest reading of the tolerance).                *)
(***************************************************************************)
EncodedValue(c) == Trunc(FVal(c.fp, c.pos)[1], FVal(c.fp, c.pos)[2])

FieldFits(c) ==
    /\ (c.pos.offsetBits % 32) + c.pos.numBits <= 32
    /\ (c.pos.numBits >= 31 \/ EncodedValue(c) < Pow2(c.pos.numBits))

C9_RoundTripSameGain ==
    (codec.stage = "decoded" /\ FieldFits(codec)) =>
        /\ codec.val - codec.fp <= Pow2(FRAC_DIGITS)
        /\ codec.fp - codec.val <= Pow2(FRAC_DIGITS)

(***************************************************************************)
(* C9. With gain 1 and translation 0, a width of at most 30 bits, the      *)
(* field inside one 32-bit word and the value non-negative and fitting the *)
(* width, encoding and then decoding gives back the integer part of the    *)
(* value: the fixed-point value with its fractional digits cleared.        *)
(***************************************************************************)
C9_RoundTrip ==
    (/\ codec.stage = "decoded" /\ FieldFits(codec)
     /\ codec.pos.gain = Gain1 /\ codec.pos.offset = 0
     /\ codec.pos.numBits <= 30) =>
        codec.val = (codec.fp \div Pow2(FRAC_DIGITS)) * Pow2(FRAC_DIGITS)

\* 100.25 has gone through a 16-bit field at bit 8 and come back as 100
C9_Witness ==
    /\ codec.stage = "decoded"
    /\ codec.pos.gain = Gain1 /\ codec.pos.offset = 0
    /\ codec.pos.offsetBits = 8 /\ codec.pos.numBits = 16
    /\ codec.fp = 3208 /\ codec.val = 3200

(***************************************************************************)
(* C10. Original statement: a Send is accepted by the hardware only when   *)
(* no frame is waiting in the queue, so that the frames queued while the   *)
(* hardware rejected are all transmitted before a later fresh Send.        *)
(***************************************************************************)
SentFrame(c) == SENDBUFFER(U32(c.canId), U32(c.length), TxData(c.canId)[1],
                           TxData(c.canId)[2])
IsSend == IsCall /\ last'.op = "Send"
\* the transmit interrupt has run: a step that is no call and moves a frame
IsHandleTx == ~IsCall /\ canTx' # canTx

C10_QueuedBeforeFresh ==
    [][(IsSend /\ last'.ret = 1) => sendCnt = 0]_vars

(***************************************************************************)
(* C10. With a hardware that rejects the first TxRejects attempts and      *)
(* accepts every later one: a rejected Send pushes its frame on top of the *)
(* queue and enables the transmit interrupt; HandleTx hands the queued     *)
(* frames to the hardware from the top down (last queued first), empties   *)
(* the queue and disables the interrupt; a Send that the hardware accepts  *)
(* is transmitted at once and leaves the queue as it is, also when frames  *)
(* are still waiting in it.                                                *)
(***************************************************************************)
C10_QueueScenario ==
    [][/\ (IsSend /\ last'.ret = 0) =>
            /\ canTx.rejects > 0
            /\ sendCnt' = sendCnt + 1
            /\ sendBuffer' = [sendBuffer EXCEPT ![sendCnt + 1] = SentFrame(last')]
            /\ canTx'.sent = canTx.sent
            /\ tmeie'
       /\ (IsSend /\ last'.ret = 1) =>
            /\ canTx'.sent = Append(canTx.sent, SentFrame(last'))
            /\ sendCnt' = sendCnt /\ sendBuffer' = sendBuffer
            /\ tmeie' = (sendCnt > 0)
       /\ IsHandleTx =>
            /\ canTx'.sent = canTx.sent \o [k \in 1..sendCnt |-> sendBuffer[sendCnt + 1 - k]]
            /\ sendCnt' = 0
            /\ ~tmeie']_vars

\* the first TxRejects frames were queued and drained last-queued-first, and a
\* fresh frame has followed them
C10_Witness ==
    /\ Len(canTx.sent) = TxRejects + 1
    /\ \A k \in 1..TxRejects : canTx.sent[k].id = U32(256 + TxRejects + 1 - k)
    /\ canTx.sent[TxRejects + 1].id = U32(256 + TxRejects + 1)
    /\ sendCnt = 0 /\ ~tmeie

(***************************************************************************)
(* C11. In every run of Send and HandleTx, one after the other, the queue  *)
(* length stays within 0..SENDBUFFER_LEN. A Send that the hardware rejects *)
(* pushes exactly its frame (id, len, both data words) on top of the queue *)
(* when the length is below SENDBUFFER_LEN; when the queue is full the     *)
(* frame is dropped and neither the queue's contents nor its length        *)
(* change. A Send that the hardware accepts never changes the queue.       *)
(***************************************************************************)
C11_QueueBounded ==
    /\ [](sendCnt \in 0..SENDBUFFER_LEN)
    /\ [][IsSend =>
            /\ (canTx.rejects > 0 /\ sendCnt < SENDBUFFER_LEN) =>
                  /\ last'.ret = 0
                  /\ sendCnt' = sendCnt + 1
                  /\ sendBuffer' = [sendBuffer EXCEPT ![sendCnt + 1] = SentFrame(last')]
                  /\ canTx'.sent = canTx.sent
            /\ (canTx.rejects > 0 /\ sendCnt = SENDBUFFER_LEN) =>
                  /\ last'.ret = -1
                  /\ sendCnt' = sendCnt /\ sendBuffer' = sendBuffer
                  /\ canTx'.sent = canTx.sent
            /\ canTx.rejects = 0 =>
                  /\ last'.ret = 1
                  /\ sendCnt' = sendCnt /\ sendBuffer' = sendBuffer
                  /\ canTx'.sent = Append(canTx.sent, SentFrame(last'))]_vars

\* a Send has found the hardware busy and the queue full, and its frame is gone
C11_Witness ==
    /\ last.op = "Send" /\ last.ret = -1
    /\ sendCnt = SENDBUFFER_LEN
    /\ \A k \in 1..sendCnt : sendBuffer[k].id # U32(last.canId)
    /\ canTx.sent = <<>>

\* the transmit interrupt has handed queued frames to the hardware
IsDrain == ~IsCall /\ canTx'.sent # canTx.sent
\* the frames waiting in the queue, bottom first
Queue == SubSeq(sendBuffer, 1, sendCnt)
\* how many frames of a sequence carry the id c
CountIn(frames, c) == Cardinality({k \in DOMAIN frames : frames[k].id = U32(c)})

IsSendAll == IsCall /\ last'.op = "SendAll"

(***************************************************************************)
(* C14. While isSaving is set, SendAll is skipped entirely: whatever the   *)
(* outbound table holds, a SendAll made with the flag set hands no frame   *)
(* to Send (none reaches the hardware, none is queued) and reads no        *)
(* parameter.                                                              *)
(***************************************************************************)
C14_SendAllSkipped ==
    [][(IsSendAll /\ isSaving) =>
          /\ io'.sends = <<>> /\ io'.reads = <<>>
          /\ canTx' = canTx
          /\ sendBuffer' = sendBuffer /\ sendCnt' = sendCnt]_vars

IsHandleRx == IsCall /\ last'.op = "HandleRx"
\* the frame is a control request: the control identifier of this node, length 8
IsControl(f) == f.id = 1536 + nodeId /\ f.len = 8
\* the path the dispatch rule gives a frame in the current state
DispatchPath(f) ==
    IF IsControl(f) THEN "sdo"
    ELSE IF FindById(canRecvMap, U32(f.id)) # 0 THEN "decode"
    ELSE "callback"
\* the frames of a FIFO that the rule hands to the callback, in order
RECURSIVE CallbackFrames(_, _)
CallbackFrames(frames, k) ==
    IF k > Len(frames) THEN <<>>
    ELSE (IF DispatchPath(frames[k]) = "callback"
          THEN <<<<frames[k].id, frames[k].data>>>> ELSE <<>>)
         \o CallbackFrames(frames, k + 1)

(***************************************************************************)
(* C15. Receive dispatch: every inbound frame takes exactly one path, the  *)
(* control request handler when it has the control identifier and length   *)
(* 8, else the field decode when its id is an active inbound message, else *)
(* the callback, which is called exactly once with (id, payload) for every *)
(* frame of the third kind - in every state, isSaving set or not.          *)
(***************************************************************************)
C15_Dispatch ==
    [][IsHandleRx =>
          /\ Len(io'.paths) = Len(io'.frames)
          /\ \A k \in 1..Len(io'.frames) : io'.paths[k] = DispatchPath(io'.frames[k])
          /\ io'.callbacks = CallbackFrames(io'.frames, 1)]_vars

\* the request and the reply of a run that handled one control request
Request == CAN_SDO(io.frames[1].data)
Reply == CAN_SDO(io.sends[1].data)
OneRequest == io.op = "HandleRx" /\ io.paths = <<"sdo">>
InParamRange(sdo) == sdo.index \in {8192, 8193}
\* the parameter the request addresses: by enumerator, or by unique id
Addressed(sdo) == IF sdo.index = 8193 THEN NumFromId(sdo.subIndex) ELSE sdo.subIndex
\* the store accepts the value for the parameter
Accepts(p, val) == p \in DOMAIN params /\ val >= ParamMin /\ val <= ParamMax

(***************************************************************************)
(* C16. Control requests in the parameter range with a sub-index below     *)
(* PARAM_LAST. A write sets the addressed parameter to the data word and   *)
(* is answered with the write acknowledge when the store accepts the value *)
(* (the store then holds it); when the set fails the answer is an abort    *)
(* with the range error code, no acknowledge, and the store is as before.  *)
(* A read is answered with the read acknowledge carrying the parameter's   *)
(* current value, and changes neither the store nor the tables. A request  *)
(* with a sub-index of PARAM_LAST or more is answered with an abort        *)
(* carrying the invalid index code.                                        *)
(***************************************************************************)
C16_ParamRequests ==
    [][(IsHandleRx /\ OneRequest' /\ InParamRange(Request')) =>
          LET req == Request'
              rep == Reply'
              p == Addressed(req)
              val == I32(req.data)
          IN /\ (req.subIndex < PARAM_LAST /\ req.cmd = SDO_WRITE /\ Accepts(p, val)) =>
                   /\ rep.cmd = SDO_WRITE_REPLY
                   /\ params' = [params EXCEPT ![p] = val]
             /\ (req.subIndex < PARAM_LAST /\ req.cmd = SDO_WRITE /\ ~Accepts(p, val)) =>
                   /\ rep.cmd = SDO_ABORT /\ rep.data = SDO_ERR_RANGE
                   /\ params' = params
             /\ (req.subIndex < PARAM_LAST /\ req.cmd = SDO_READ /\ p \in DOMAIN params) =>
                   /\ rep.cmd = SDO_READ_REPLY /\ rep.data = U32(params[p])
                   /\ params' = params
                   /\ canSendMap' = canSendMap /\ canRecvMap' = canRecvMap
             /\ req.subIndex >= PARAM_LAST =>
                   /\ rep.cmd = SDO_ABORT /\ rep.data = SDO_ERR_INVIDX
                   /\ params' = params]_vars

\* a parameter written by one request has been read back by the next
C16_Witness ==
    /\ OneRequest /\ InParamRange(Request)
    /\ Request.cmd = SDO_READ /\ Reply.cmd = SDO_READ_REPLY
    /\ Addressed(Request) \in DOMAIN params
    /\ Reply.data = U32(params[Addressed(Request)])
    /\ params[Addressed(Request)] > 0

InMapRange(sdo) == sdo.index >= 12288 /\ sdo.index < 18432
\* the combinations ProcessSDO serves
Supported(sdo) ==
    /\ sdo.subIndex < PARAM_LAST
    /\ \/ InParamRange(sdo) /\ sdo.cmd \in {SDO_WRITE, SDO_READ}
       \/ InMapRange(sdo) /\ sdo.cmd = SDO_WRITE

(***************************************************************************)
(* C17. Every control request that is not one of the supported             *)
(* combinations (parameter range with the read or the write command,       *)
(* mapping range with the write command, sub-index below PARAM_LAST) is    *)
(* answered with an abort carrying the invalid index code - an unknown     *)
(* command byte in the parameter range and a read command in the mapping   *)
(* range included; no reply carries the command byte of its request.       *)
(***************************************************************************)
C17_UnsupportedAborted ==
    [][(IsHandleRx /\ OneRequest') =>
          /\ ~Supported(Request') =>
                (Reply'.cmd = SDO_ABORT /\ Reply'.data = SDO_ERR_INVIDX)
          /\ Reply'.cmd # Request'.cmd]_vars

\* the fields of a mapping request
MapOffsetBits(sdo) == sdo.data[2] % 256
MapWidth(sdo) == (sdo.data[2] \div 256) % 256
MapGain(sdo) == FloatOfInt(sdo.data[1])
MapIsRecv(sdo) == (sdo.index \div 16384) % 2 = 1
MapCanId(sdo) == sdo.index % 2048
MapTable(sdo) == IF MapIsRecv(sdo) THEN canRecvMap ELSE canSendMap
MapTableNext(sdo) == IF MapIsRecv(sdo) THEN canRecvMap' ELSE canSendMap'
\* the table has the message or room for it, and the message has room for a field
MapHasRoom(sdo) ==
    LET i == ExistingMap(MapTable(sdo), U32(MapCanId(sdo)))
    IN i # 0 /\ forEachPosMap(MapTable(sdo)[i]) < MAX_ITEMS_PER_MESSAGE
\* the table after the mapping has been added behind the fields of its message
MapAdded(sdo) ==
    LET i == ExistingMap(MapTable(sdo), U32(MapCanId(sdo)))
        n == forEachPosMap(MapTable(sdo)[i])
    IN /\ MapTableNext(sdo)[i].canId = U32(MapCanId(sdo))
       /\ MapTableNext(sdo)[i].items[n + 1] =
             CANPOS(sdo.subIndex, 0, MapGain(sdo), MapOffsetBits(sdo), MapWidth(sdo))
       /\ \A k \in 1..n : MapTableNext(sdo)[i].items[k] = MapTable(sdo)[i].items[k]

(***************************************************************************)
(* C18. A write request in the mapping range takes offsetBits from data    *)
(* bits 0-7, the width from bits 8-15 and the gain from bits 16-31, and    *)
(* adds the mapping to the inbound table when index bit 0x4000 is set and  *)
(* to the outbound table otherwise, with id = index & 0x7FF and param =    *)
(* sub-index. The reply is the write acknowledge exactly when the mapping  *)
(* was added within the documented limits (offsetBits <= 63, width <= 32,  *)
(* room in the table and in the message); otherwise it is an abort with    *)
(* the range error code, and the tables are unchanged.                     *)
(***************************************************************************)
C18_MapRequests ==
    [][(IsHandleRx /\ OneRequest' /\ InMapRange(Request')
          /\ Request'.subIndex < PARAM_LAST /\ Request'.cmd = SDO_WRITE) =>
          LET req == Request'
              within == /\ MapOffsetBits(req) <= 63
                        /\ MapWidth(req) <= 32
                        /\ MapHasRoom(req)
          IN /\ within => (Reply'.cmd = SDO_WRITE_REPLY /\ MapAdded(req))
             /\ ~within =>
                   /\ Reply'.cmd = SDO_ABORT /\ Reply'.data = SDO_ERR_RANGE
                   /\ canSendMap' = canSendMap /\ canRecvMap' = canRecvMap]_vars

\* the control requests of a FIFO, in order
RECURSIVE ControlFrames(_, _)
ControlFrames(frames, k) ==
    IF k > Len(frames) THEN <<>>
    ELSE (IF IsControl(frames[k]) THEN <<frames[k]>> ELSE <<>>)
         \o ControlFrames(frames, k + 1)

(***************************************************************************)
(* C19. Each inbound frame with the control identifier and length 8 causes *)
(* exactly one call of Send, with the identifier 0x580 + nodeId and a      *)
(* payload of 8 bytes in the layout of the request whose index and         *)
(* sub-index are those of the request; no other frame causes a reply.      *)
(***************************************************************************)
C19_OneReplyPerRequest ==
    [][IsHandleRx =>
          LET reqs == ControlFrames(io'.frames, 1)
          IN /\ Len(io'.sends) = Len(reqs)
             /\ \A k \in 1..Len(reqs) :
                   /\ io'.sends[k].id = U32(1408 + nodeId)
                   /\ io'.sends[k].len = U32(8)
                   /\ CAN_SDO(io'.sends[k].data).index = CAN_SDO(reqs[k].data).index
                   /\ CAN_SDO(io'.sends[k].data).subIndex = CAN_SDO(reqs[k].data).subIndex
             /\ canTx'.sent = canTx.sent \o io'.sends]_vars

\* a FIFO with a data frame and a control request has caused one reply
C19_Witness ==
    /\ io.op = "HandleRx" /\ Len(io.frames) = 2
    /\ io.paths[2] = "sdo" /\ io.paths[1] # "sdo"
    /\ Len(io.sends) = 1
    /\ canTx.sent[Len(canTx.sent)] = io.sends[1]

\* the ids ConfigureFilters lists: the control identifier, the registered
\* passthrough ids, the ids of the active inbound messages (as uint16_t)
FilterIds ==
    <<1536 + nodeId>>
    \o [n \in 1..nextUserMessageIndex |-> userIds[n]]
    \o [i \in 1..forEachCanMap(canRecvMap) |-> canRecvMap[i].canId[2]]
\* ceil((1 + u + r) / IDS_PER_BANK)
BanksNeeded == (Len(FilterIds) + IDS_PER_BANK - 1) \div IDS_PER_BANK
\* bank b (from 1) of the list, left aligned, unused positions zero
ListedBank(b) ==
    [on |-> TRUE,
     ids |-> [n \in 1..IDS_PER_BANK |->
                IF (b - 1) * IDS_PER_BANK + n <= Len(FilterIds)
                THEN U16(FilterIds[(b - 1) * IDS_PER_BANK + n] * 32) ELSE 0],
     fifo |-> (b - 1) % 2]
\* the step has run ConfigureFilters
IsConfigure ==
    \/ IsCall /\ last'.op \in {"AddRecv", "Clear"}
    \/ nextUserMessageIndex' = nextUserMessageIndex + 1

(***************************************************************************)
(* C20. With u registered passthrough ids and r active inbound messages,   *)
(* one run of ConfigureFilters programs exactly ceil((1 + u + r) / 4)      *)
(* consecutive filter banks, from the first on: they list the control      *)
(* identifier, then the passthrough ids in the order of registration, then *)
(* the inbound ids in table order, each once, unused positions zero; the   *)
(* other banks are left as they were. A second run in the same state       *)
(* programs the same banks with the same contents.                         *)
(***************************************************************************)
C20_FilterBanks ==
    [][IsConfigure =>
          /\ BanksNeeded' <= NumBanks
          /\ filterBanks' = [b \in 1..NumBanks |->
                               IF b <= BanksNeeded' THEN ListedBank(b)'
                               ELSE filterBanks[b]]
          /\ ConfigureFilters(filterBanks', nodeId', userIds', nextUserMessageIndex',
                              canRecvMap') = filterBanks']_vars

\* more ids than one bank holds: a full bank and a partly filled last bank
C20_Witness ==
    /\ nextUserMessageIndex > 0 /\ forEachCanMap(canRecvMap) > 0
    /\ BanksNeeded = 2 /\ Len(FilterIds) > IDS_PER_BANK
    /\ filterBanks[1] = ListedBank(1)
    /\ filterBanks[2] = ListedBank(2)
    /\ filterBanks[2].ids[IDS_PER_BANK] = 0

\* the ids the programmed banks let through (a position holding 0 is unused)
ProgrammedIds ==
    {filterBanks[b].ids[n] \div 32 :
        b \in {x \in 1..NumBanks : filterBanks[x].on}, n \in 1..IDS_PER_BANK} \ {0}
\* the control identifier, the passthrough ids, the ids of the active inbound messages
WantedIds == {FilterIds[k] : k \in 1..Len(FilterIds)}

(***************************************************************************)
(* C21. After any sequence of AddRecv, Remove, Clear and                   *)
(* RegisterUserMessage calls the ids held in the programmed filter banks   *)
(* are the control identifier, the registered passthrough ids and the ids  *)
(* of the active inbound messages, and no others: an id whose last inbound *)
(* mapping was removed is in no programmed bank any more.                  *)
(***************************************************************************)
C21_FilterSet == ProgrammedIds = WantedIds

\* the invariants of one table
TableOk(canMap) ==
    LET active == {i \in MsgIdx : canMap[i].canId # CANID_UNSET}
        fields(i) == {j \in ItemIdx : canMap[i].items[j].numBits > 0}
    IN /\ \A i, j \in active : i # j => canMap[i].canId # canMap[j].canId
       /\ \A i \in active : canMap[i].canId[1] <= 8191
       /\ active = 1..Cardinality(active)
       /\ \A i \in active :
             /\ fields(i) = 1..Cardinality(fields(i))
             /\ Cardinality(fields(i)) >= 1
             /\ \A j \in fields(i) : canMap[i].items[j].numBits <= 32
       /\ \A i \in MsgIdx \ active : fields(i) = {}

(***************************************************************************)
(* C22. In every state reached by AddSend, AddRecv (with any int           *)
(* arguments), Remove and Clear, in each table: every active id appears    *)
(* once at most and lies in 0..0x1FFFFFFF; the active messages are         *)
(* contiguous from the first slot; the active fields of an active message  *)
(* are contiguous from its first item, between 1 and                       *)
(* MAX_ITEMS_PER_MESSAGE in number, each 1..32 bits wide; and no unused    *)
(* slot holds an active field.                                             *)
(***************************************************************************)
C22_TableInvariants == TableOk(canSendMap) /\ TableOk(canRecvMap)

IsSave == IsCall /\ last'.op = "Save" /\ ~isSaving'
IsSaveBegin == IsCall /\ last'.op = "Save" /\ isSaving'
IsSaveEnd == isSaving /\ ~isSaving'

(***************************************************************************)
(* C23. Save, run without interruption, is transparent to memory: when it  *)
(* returns, both tables are what they were before the call, with every     *)
(* field's parameter the enumerator it was, for each parameter of the      *)
(* store; isSaving is false; and isSaving was true during every write to   *)
(* the flash. In the two steps of Save: the restoration undoes the         *)
(* substitution, and the flash is written by the second step only.         *)
(***************************************************************************)
C23_SaveTransparent ==
    [][/\ IsSave =>
            /\ canSendMap' = canSendMap /\ canRecvMap' = canRecvMap
            /\ ~isSaving'
       /\ IsSaveBegin =>
            /\ ReplaceParamUidByEnum(canSendMap') = canSendMap
            /\ ReplaceParamUidByEnum(canRecvMap') = canRecvMap
            /\ flash' = flash
       /\ IsSaveEnd =>
            /\ canSendMap' = ReplaceParamUidByEnum(canSendMap)
            /\ canRecvMap' = ReplaceParamUidByEnum(canRecvMap)
       /\ (flash' # flash /\ ~IsSave) => (isSaving /\ IsSaveEnd)
       /\ (IsSaveEnd /\ flash = ErasedFlash) =>
            flash' = SaveImage(canSendMap', canRecvMap', flash).flash]_vars

\* a Save has returned with tables that hold a parameter whose unique id differs
\* from its enumerator, and the flash block is written
C23_Witness ==
    /\ last.op = "Save" /\ ~isSaving
    /\ flash # ErasedFlash
    /\ forEachCanMap(canSendMap) > 0 /\ forEachCanMap(canRecvMap) > 0
    /\ canSendMap[1].items[1].mapParam = 0
    /\ GetAttribId(0) # 0

IsTxIsr == fg' = fg /\ nCalls' = nCalls /\ canTx'.sent # canTx.sent
IsPushEnd == fg.pc = "count" /\ fg'.pc = "enable"

(***************************************************************************)
(* C24. Push and pop do not interleave: with the foreground Send           *)
(* interrupted between any two statements by the receive interrupt (whose  *)
(* ProcessSDO calls Send) and by the transmit interrupt whenever TMEIE is  *)
(* set, sendCnt stays within 0..SENDBUFFER_LEN, no store goes beyond       *)
(* sendBuffer, HandleTx never runs between the start and the end of a      *)
(* push, and no queued frame is overwritten, duplicated or lost: a step    *)
(* that pops nothing leaves the queued frames where they are, and the end  *)
(* of a push leaves the pushed frame on top of a queue one longer.         *)
(***************************************************************************)
C24_PushPopGuarded ==
    /\ [](sendCnt \in 0..SENDBUFFER_LEN /\ ~fg.outside)
    /\ [][/\ IsTxIsr => fg.pc \notin PushPcs
          /\ sendCnt' >= sendCnt =>
                \A k \in 1..sendCnt : k <= SENDBUFFER_LEN => sendBuffer'[k] = sendBuffer[k]
          /\ IsPushEnd =>
                /\ sendCnt' = sendCnt + 1
                /\ sendCnt' <= SENDBUFFER_LEN => sendBuffer'[sendCnt'] = fg.frame]_vars

\* the last call was a HandleRx that ran while isSaving was set and handled one
\* mapping request, acknowledged, for a field of width 1..32
AddedInSave ==
    /\ last.op = "HandleRx" /\ OneRequest /\ io.saving
    /\ InMapRange(Request) /\ Request.cmd = SDO_WRITE /\ Request.subIndex < PARAM_LAST
    /\ MapWidth(Request) \in 1..32
    /\ Reply.cmd = SDO_WRITE_REPLY
\* the field that request added: the last active one of its message
AddedItem(canMap, sdo) ==
    LET i == FindById(canMap, U32(MapCanId(sdo)))
    IN canMap[i].items[forEachPosMap(canMap[i])]

(***************************************************************************)
(* C25. isSaving does not keep the tables from being changed: the receive  *)
(* interrupt can run between the two halves of Save, and ProcessSDO then   *)
(* executes Add with the flag set and leaves it set. When Save completes,  *)
(* the field added in between, stored with the enumerator of the request,  *)
(* has gone through the translation from unique id to enumerator: the      *)
(* table holds NumFromId(enumerator) for it.                               *)
(***************************************************************************)
C25_AddDuringSave ==
    [][/\ (IsHandleRx /\ isSaving /\ AddedInSave') =>
            /\ isSaving'
            /\ AddedItem(MapTableNext(Request'), Request').mapParam = Request'.subIndex
            /\ MapTableNext(Request') # MapTable(Request')
       /\ (IsSaveEnd /\ AddedInSave) =>
            AddedItem(MapTableNext(Request), Request).mapParam = NumFromId(Request.subIndex)]_vars

\* Save has completed around an acknowledged mapping request, and the table holds
\* another parameter for the added field than the request named
C25_Witness ==
    /\ ~isSaving /\ flash # ErasedFlash
    /\ AddedInSave
    /\ AddedItem(MapTable(Request), Request).mapParam # Request.subIndex

====
